---- MODULE Spec2Model ----
(***************************************************************************)
(* A model of the backend of upgradable_defi: the address resolver of      *)
(* app/config.py, the chain reader of app/chain.py and the HTTP handlers   *)
(* of app/main.py that use it.                                             *)
(*                                                                         *)
(* Numbers.  TLC's integers are 32-bit, so on-chain integers are drawn     *)
(* from small ranges.  A Decimal is kept as an integer at a stated scale   *)
(* (the comment of each operator names it).  Prices keep the source's      *)
(* 8-decimal base.  A WAD mantissa is kept in units of 10^17, one decimal  *)
(* digit of the 18 the source has: every mantissa of the model is a        *)
(* multiple of 10^17, on which the 16-decimal quantization of the output   *)
(* changes nothing.                                                        *)
(***************************************************************************)
EXTENDS Integers, Sequences, FiniteSets, TLC

VARIABLES
    trace,      \* the deployment trace file RUN_JSON, as load_addresses finds it
    extracted, \* the outcome of the last call of _extract_addresses_from_run_json
    cache,      \* the lru_cache of load_addresses: None, or the cached snapshot
    resolved,   \* the outcome of the last call of load_addresses
    chain,      \* the on-chain state the bound handles read
    resp,       \* the outcome of the last request served
    called      \* the last call of _call_fn made on its own, and its outcome

vars == <<trace, extracted, cache, resolved, chain, resp, called>>

\* Python's None: NoAddr where an address string is expected, None (the
\* empty option) where a dict is; Some(d) is the dict d.
NoAddr == [id |-> 0, cs |-> "none"]
None == <<>>
Some(d) == <<d>>

\* The element of a singleton: The({ F(x) : x \in {e} }) is F(e) with e
\* computed once, a local variable of the source.
The(S) == CHOOSE x \in S : TRUE

\* ------------------------------------------------------------------------
\* Bounds of the model
\* ------------------------------------------------------------------------
MaxTxs == 3

\* ------------------------------------------------------------------------
\* Addresses.  An address string is the account it names (id) and the
\* letter case it is written in.  str.lower() maps every spelling of an
\* account to the same string.
\* ------------------------------------------------------------------------
Cases == {"lower", "checksum"}

Addr(i, c) == [id |-> i, cs |-> c]

Lower(a) == [a EXCEPT !.cs = "lower"]

\* ------------------------------------------------------------------------
\* config.py: the deployment trace
\* ------------------------------------------------------------------------
COMPTROLLER_ABI_NAME == "Comptroller"
MARKET_ABI_NAME == "LendingToken"
LIQUIDITY_MINING_ABI_NAME == "LiquidityMining"
PROXY_NAME == "ERC1967Proxy"

NoName == "<unnamed>"
NoArg == NoAddr

TxIds == 1..MaxTxs

\* The i-th transaction of a trace.  A CREATE deploys the contract at the
\* account i: two CREATEs of a broadcast never share an address.
Tx(type, name, addr, arg) ==
    [transactionType |-> type, contractName |-> name, contractAddress |-> addr, arg0 |-> arg]

\* An implementation: a role's contract, or one the trace does not name.
ImplTxs(i) ==
    { Tx("CREATE", COMPTROLLER_ABI_NAME, Addr(i, c), NoArg) : c \in Cases }
    \cup { Tx("CREATE", n, Addr(i, "lower"), NoArg) : n \in {"PriceOracle", MARKET_ABI_NAME, NoName} }

\* A proxy, whose first constructor argument (if it has one) names another
\* account of the trace in either spelling.
ProxyTxs(i) ==
    { Tx("CREATE", PROXY_NAME, Addr(i, "checksum"), a) :
        a \in {NoArg} \cup { Addr(j, c) : j \in TxIds \ {i}, c \in Cases } }

CallTxs(i) == { Tx("CALL", NoName, Addr(i, "lower"), NoArg) }

TxsAt(i) == ImplTxs(i) \cup ProxyTxs(i) \cup CallTxs(i)

\* A trace file: absent, unreadable (not JSON, or no transaction list), or a
\* transaction list.
TraceAbsent == [kind |-> "absent", txs |-> <<>>]
TraceUnreadable == [kind |-> "unreadable", txs |-> <<>>]
TraceOf(t) == [kind |-> "list", txs |-> t]

RECURSIVE TraceLists(_)
TraceLists(n) ==
    IF n = 0 THEN {<<>>}
    ELSE { Append(t, tx) : t \in TraceLists(n - 1), tx \in TxsAt(n) }

Traces == {TraceAbsent, TraceUnreadable} \cup { TraceOf(t) : t \in TraceLists(MaxTxs) }

\* ---- helpers on sequences ----
\* The lists of ss one after the other; the list is halved rather than
\* peeled, which keeps the recursion shallow on a trace of many CREATEs.
RECURSIVE Flatten(_)
Flatten(ss) ==
    IF ss = <<>> THEN <<>>
    ELSE IF Len(ss) = 1 THEN ss[1]
    ELSE Flatten(SubSeq(ss, 1, Len(ss) \div 2)) \o Flatten(SubSeq(ss, Len(ss) \div 2 + 1, Len(ss)))

\* [f(s[1]), ..., f(s[n])]
SeqMap(f(_), s) == [i \in 1..Len(s) |-> f(s[i])]

IsCreate(t) == t.transactionType = "CREATE"

\* line 87
Creates(txs) == SelectSeq(txs, IsCreate)

\* lines 91-100: impls_by_name[name], the addresses deployed under the name,
\* in trace order and as written.
NormalizedName(tx) == tx.contractName

ImplsByName(creates, name) ==
    LET named(t) == NormalizedName(t) = name
        addr(t) == t.contractAddress
    IN  SeqMap(addr, SelectSeq(creates, named))

\* lines 102-113: proxies_by_impl, keyed by the lower-cased first argument.
ProxyKeyAsWritten(impl_addr) == impl_addr

ProxyKey(impl_addr) == Lower(impl_addr)

ProxiesByImpl(creates, key) ==
    LET pointsAt(t) == /\ t.contractName = PROXY_NAME
                       /\ t.arg0 # NoArg
                       /\ ProxyKey(t.arg0) = key
        addr(t) == t.contractAddress
    IN  SeqMap(addr, SelectSeq(creates, pointsAt))

\* lines 115-121
AddressesFor(creates, contract_name) ==
    LET impls == ImplsByName(creates, contract_name)
        proxiesOf(impl_addr) == ProxiesByImpl(creates, Lower(impl_addr))
        result == Flatten(SeqMap(proxiesOf, impls))
    IN  IF result = <<>> THEN impls ELSE result

\* lines 125-128: the proxies of the unnamed implementations.  The keys of
\* impl_name_by_addr are lower-cased addresses, in the order of their CREATEs.
ComptrollerCandidates(creates) ==
    LET unnamed(t) == NormalizedName(t) = NoName
        proxiesOf(t) == ProxiesByImpl(creates, Lower(t.contractAddress))
    IN  Flatten(SeqMap(proxiesOf, SelectSeq(creates, unnamed)))

\* The first candidate accepted however many there are.
ComptrollersAnyCandidate(creates) ==
    LET named == AddressesFor(creates, COMPTROLLER_ABI_NAME)
        candidates == ComptrollerCandidates(creates)
    IN  IF named # <<>> THEN named ELSE candidates

\* lines 123-130
Comptrollers(creates) ==
    LET named == AddressesFor(creates, COMPTROLLER_ABI_NAME)
        candidates == ComptrollerCandidates(creates)
    IN  IF named # <<>> THEN named
        ELSE IF Len(candidates) = 1 THEN candidates
        ELSE <<>>

FirstOrNone(s) == IF s = <<>> THEN NoAddr ELSE s[1]

\* lines 76-145
ExtractAddresses(file) ==
    IF file.kind # "list" THEN None
    ELSE LET creates == Creates(file.txs)
         IN  IF creates = <<>> THEN None
             ELSE Some(
                  [comptroller |-> FirstOrNone(Comptrollers(creates)),
                   markets |-> AddressesFor(creates, MARKET_ABI_NAME),
                   liquidityMining |-> AddressesFor(creates, LIQUIDITY_MINING_ABI_NAME),
                   priceOracle |-> FirstOrNone(AddressesFor(creates, "PriceOracle")),
                   governor |-> FirstOrNone(AddressesFor(creates, "ProtocolGovernor")),
                   protocolTimelock |-> FirstOrNone(AddressesFor(creates, "ProtocolTimelock"))])

\* lines 72-73
FindRunJsonCandidates(file) == IF file.kind = "absent" THEN <<>> ELSE <<file>>

\* ------------------------------------------------------------------------
\* config.py: the static address file
\* ------------------------------------------------------------------------
CfgFile(k, c, o) == [kind |-> k, comptroller |-> c, priceOracle |-> o]
CfgAbsent == CfgFile("absent", NoAddr, NoAddr)
CfgUnreadable == CfgFile("unreadable", NoAddr, NoAddr)
CfgNotDict == CfgFile("not-a-dict", NoAddr, NoAddr)

\* The accounts a static file names are not those of the trace.
CfgComptroller == Addr(MaxTxs + 1, "checksum")
CfgOracle == Addr(MaxTxs + 2, "checksum")

\* A static file may also hold a string that is no address.
CfgNotAnAddress == Addr(MaxTxs + 1, "nothex")

CfgDicts ==
    { CfgFile("dict", c, o) : c \in {NoAddr, CfgComptroller, CfgNotAnAddress}, o \in {NoAddr, CfgOracle} }

ConfigFiles == {CfgAbsent, CfgUnreadable, CfgNotDict} \cup CfgDicts

\* lines 148-167
LoadAddressesFile(cfg) ==
    IF cfg.kind # "dict" THEN None
    ELSE Some([comptroller |-> cfg.comptroller,
               markets |-> <<>>,
               liquidityMining |-> <<>>,
               priceOracle |-> cfg.priceOracle,
               governor |-> NoAddr,
               protocolTimelock |-> NoAddr])

\* lines 179-184
Score(discovered) ==
    (IF discovered.comptroller # NoAddr THEN 100 ELSE 0)
    + (IF discovered.priceOracle # NoAddr THEN 100 ELSE 0)
    + Len(discovered.markets)
    + Len(discovered.liquidityMining)

\* lines 173-187: the loop over the candidates, from the state (best,
\* best_score) it has reached.
RECURSIVE BestOf(_, _, _)
BestOf(candidates, best, best_score) ==
    IF candidates = <<>> THEN best
    ELSE LET discovered == ExtractAddresses(Head(candidates))
         IN  IF discovered = None THEN BestOf(Tail(candidates), best, best_score)
             ELSE IF Score(discovered[1]) > best_score
                  THEN BestOf(Tail(candidates), discovered, Score(discovered[1]))
                  ELSE BestOf(Tail(candidates), best, best_score)

\* The outcome of a call: a returned value, or the exception it raised.
Ok(v, src) == [status |-> "ok", value |-> v, source |-> src, error |-> "-"]
Raised(e) == [status |-> "raise", value |-> None, source |-> "-", error |-> e]
NotCalled == [status |-> "not-called", value |-> None, source |-> "-", error |-> "-"]

\* line 188
TraceUsable(best) ==
    /\ best # None
    /\ best[1].comptroller # NoAddr
    /\ best[1].priceOracle # NoAddr

\* lines 191-193
ConfigUsable(configured) == configured # None

\* [s[n], ..., s[1]]
Reverse(s) == [i \in 1..Len(s) |-> s[Len(s) + 1 - i]]

\* The candidates gone through from the last to the first.
LoadAddressesOverReversed(candidates, auto, cfg) ==
    LET best == IF auto THEN BestOf(Reverse(candidates), None, -1) ELSE None
        configured == LoadAddressesFile(cfg)
    IN  IF auto /\ TraceUsable(best) THEN Ok(best, "trace")
        ELSE IF ConfigUsable(configured) THEN Ok(configured, "static")
        ELSE Raised("FileNotFoundError")

\* lines 172-198, the body under the cache, on the candidates that
\* _find_run_json_candidates() returned (line 175)
LoadAddressesOver(candidates, auto, cfg) ==
    LET best == IF auto THEN BestOf(candidates, None, -1) ELSE None
        configured == LoadAddressesFile(cfg)
    IN  IF auto /\ TraceUsable(best) THEN Ok(best, "trace")
        ELSE IF ConfigUsable(configured) THEN Ok(configured, "static")
        ELSE Raised("FileNotFoundError")

\* lines 171-198, the body under the cache
LoadAddressesBody(auto, file, cfg) == LoadAddressesOver(FindRunJsonCandidates(file), auto, cfg)

\* ------------------------------------------------------------------------
\* Actions of the resolver
\* ------------------------------------------------------------------------

\* load_addresses() with nothing cached: AUTO_DISCOVER_ADDRESSES and the
\* static file are read as they are at the call.  lru_cache keeps a returned
\* value and keeps nothing of a call that raised.
LoadAddresses(auto, cfg) ==
    /\ cache = None
    /\ resolved' = LoadAddressesBody(auto, trace, cfg)
    /\ cache' = IF resolved'.status = "ok" THEN resolved'.value ELSE None
    /\ UNCHANGED <<trace, extracted, chain, resp, called>>

\* _extract_addresses_from_run_json(RUN_JSON), called on its own.
ExtractFromRunJson ==
    /\ extracted.status = "not-called"
    /\ extracted' = Ok(ExtractAddresses(trace), "trace")
    /\ UNCHANGED <<trace, cache, resolved, chain, resp, called>>

\* load_addresses() again: lru_cache(maxsize=1) answers from the cache.
LoadAddressesCached ==
    /\ cache # None
    /\ resolved' = Ok(cache, "cache")
    /\ UNCHANGED <<trace, extracted, cache, chain, resp, called>>


\* ========================================================================
\* chain.py: the chain reader
\* ========================================================================

\* Python's None where a number is expected.  On-chain integers are unsigned
\* and every figure derived from them is non-negative, so -1 is free.
NoVal == -1

\* ---- bounds of the on-chain state ----
NumMarkets == 2
NumPools == 2
TokenDecimals == 1

\* ---- chain.py lines 7-9 ----
\* WAD is 10^18 in the source; the model keeps one decimal digit of it, a
\* mantissa of the model being the source's in units of 10^17.
WAD == 10
PRICE_DECIMALS == 100000000
DEFAULT_SECONDS_PER_YEAR == 31536000

RECURSIVE Pow10(_)
Pow10(n) == IF n = 0 THEN 1 ELSE 10 * Pow10(n - 1)

\* Decimal.quantize under the default ROUND_HALF_EVEN: n / d rounded to an
\* integer, n >= 0 and d > 0.
RoundHalfEven(n, d) ==
    LET q == n \div d
        r == n % d
    IN  IF 2 * r < d THEN q
        ELSE IF 2 * r > d THEN q + 1
        ELSE IF q % 2 = 0 THEN q ELSE q + 1

\* ---- fixed-point scales of the model's figures ----
\* A token amount (a float of the source) is kept in units of
\* 1 / TokenScale: raw / 10^decimals, decimals <= TokenDecimals, and the
\* product of a raw amount and an exchange rate mantissa, are integers there.
TokenScale == Pow10(TokenDecimals) * WAD
\* A USD figure quantized to "0.000001" is kept in micro-dollars.
UsdQuantum == PRICE_DECIMALS \div 1000000

\* ------------------------------------------------------------------------
\* Addresses as web3 sees them (lines 40-51)
\* ------------------------------------------------------------------------
\* Spellings of an account: all lower case and EIP-55 checksummed are
\* addresses; a wrong mixed case, a non-hex string and the empty string are
\* not.
AddrSpellings == {"lower", "checksum", "badsum", "nothex", "empty"}

IsAddress(a) == a.cs \in {"lower", "checksum"}

\* lines 40-45 without the is_address of line 43: every non-empty string is
\* taken for an address.
ChecksumUnvalidated(address) ==
    IF address = NoAddr \/ address.cs = "empty" THEN NoAddr
    ELSE Addr(address.id, "checksum")

\* lines 40-45
Checksum(address) ==
    IF address = NoAddr \/ address.cs = "empty" THEN NoAddr
    ELSE IF ~IsAddress(address) THEN NoAddr
    ELSE Addr(address.id, "checksum")

\* lines 47-51: the handle is known by the address it is bound to.
BuildContract(address) == Checksum(address)

\* lines 84-92
GetErc20(address) == IF address = NoAddr THEN NoAddr ELSE BuildContract(address)
GetRateModel(address) == IF address = NoAddr THEN NoAddr ELSE BuildContract(address)

\* ------------------------------------------------------------------------
\* The safe call (lines 69-82)
\* ------------------------------------------------------------------------
\* A method of a bound contract as a call meets it: whether the ABI has it,
\* whether the call fails (revert, network error, undecodable result) and
\* what it returns when it does not.
Method(exists, fails, value) == [exists |-> exists, fails |-> fails, value |-> value]

\* A read of the model's state: a value v, or NoVal / NoAddr for a failing call.
IntRead(v) == Method(TRUE, v = NoVal, v)
AddrRead(a) == Method(TRUE, a = NoAddr, a)

\* What a call of the reader comes to: the value it returns, or the
\* exception that leaves it.
Returned(v) == [raised |-> FALSE, value |-> v, error |-> "-"]
Thrown(e) == [raised |-> TRUE, value |-> <<>>, error |-> e]

\* What an operation of the reader comes to, with the contract methods it
\* called on the way.
Answer(outcome, reads) ==
    [raised |-> outcome.raised, value |-> outcome.value, error |-> outcome.error,
     reads |-> reads]

\* web3 matches the arguments against the ABI when the call object is built,
\* fn(*args): None encodes as no ABI type, and the build raises.
ArgsEncodable(args) == \A i \in DOMAIN args : args[i] # NoVal

\* lines 75-82.  fn(*args) is evaluated outside of every try.
CallFn(contract, fn, args, default) ==
    IF contract = NoAddr THEN Returned(default)
    ELSE IF ~fn.exists THEN Returned(default)
    ELSE IF ~ArgsEncodable(args) THEN Thrown("Web3ValidationError")
    ELSE IF fn.fails THEN Returned(default)
    ELSE Returned(fn.value)

\* _call_fn(contract, name, *args, default=default), called on its own.
NoCall == [made |-> FALSE, contract |-> NoAddr, fn |-> Method(FALSE, FALSE, NoVal),
           args |-> <<>>, default |-> NoVal, result |-> Returned(NoVal)]

CallFnOnce(contract, fn, args, default) ==
    /\ called' = [made |-> TRUE, contract |-> contract, fn |-> fn, args |-> args,
                  default |-> default, result |-> CallFn(contract, fn, args, default)]
    /\ UNCHANGED <<trace, extracted, cache, resolved, chain, resp>>

\* ------------------------------------------------------------------------
\* DecimalMath (lines 99-167), on the model's scales
\* ------------------------------------------------------------------------
\* lines 114-119, quantized to micro-dollars by the "0.000001" of the output
\* (lines 272-275): amount / 10^decimals * price / 10^8.
AmountToUsdQuantized(amount, decimals, price) ==
    IF amount = NoVal \/ decimals = NoVal \/ price = NoVal THEN NoVal
    ELSE RoundHalfEven(amount * price, Pow10(decimals) * UsdQuantum)

\* lines 130-133 with the "0.000001" of lines 284-285, 453-454: micro-dollars.
PriceToUsdQuantized(price) ==
    IF price = NoVal THEN NoVal ELSE RoundHalfEven(price, UsdQuantum)

\* lines 135-138 with the "0.0000000000000001" of the output: a mantissa of
\* the model is a multiple of 10^17, which the quantization leaves as it is;
\* the rate is kept as its mantissa, in units of 1 / WAD.
RateToDecimal(rate) == IF rate = NoVal THEN NoVal ELSE rate

\* lines 140-143: value * 100 moves the decimal point; the percentage is
\* kept as the same mantissa, in units of 100 / WAD.
DecimalToPct(value) == IF value = NoVal THEN NoVal ELSE value

\* lines 152-155, in units of 1 / TokenScale.
AmountToToken(amount, decimals) ==
    IF amount = NoVal \/ decimals = NoVal THEN NoVal
    ELSE amount * (TokenScale \div Pow10(decimals))

\* lines 157-160, in units of 1 / WAD.
WadToFloat(value) == IF value = NoVal THEN NoVal ELSE value

\* lines 104-107: Decimal(str(x)) of a float x that was made from a Decimal of
\* at most 15 significant digits is that Decimal again.
ToDecimalFromFloat(value) == value

\* lines 109-112: a figure kept in units of 1 / (1000000 * scale), quantized
\* to micro-dollars.
FormatUsd(value, scale) == IF value = NoVal THEN NoVal ELSE RoundHalfEven(value, scale)

\* A ratio num / den the source keeps as a float.
Ratio(n, d) == [num |-> n, den |-> d]
NoRatio == Ratio(NoVal, 1)

\* ------------------------------------------------------------------------
\* The on-chain state of one market and what the reader's handles read there
\* ------------------------------------------------------------------------
\* The market k is the contract at account 10 + k, its underlying asset the
\* one at 20 + k and its rate model the one at 30 + k.
MarketAddr(k) == Addr(10 + k, "checksum")
AssetAddr(k) == Addr(20 + k, "checksum")
RateModelAddr(k) == Addr(30 + k, "checksum")

\* The rate model of a market: PerYearAbi says whether the ABI the reader
\* binds has the per-year methods and SECONDS_PER_YEAR.
RateModel(perYearAbi, borrowYear, supplyYear, borrowRate, supplyRate, seconds) ==
    [perYearAbi |-> perYearAbi, borrowYear |-> borrowYear, supplyYear |-> supplyYear,
     borrowRate |-> borrowRate, supplyRate |-> supplyRate, seconds |-> seconds]

RateModelWorking == RateModel(TRUE, 2, 1, 1, 1, 3)
RateModelPerSecondOnly == RateModel(FALSE, NoVal, NoVal, 1, 1, NoVal)
RateModelFailing == RateModel(TRUE, NoVal, NoVal, NoVal, NoVal, NoVal)

\* getMarketConfiguration: fails, or returns (collateralFactorMantissa, isListed).
MarketCfg(ok, cf, listed) == [ok |-> ok, cf |-> cf, listed |-> listed]
CfgFailing == MarketCfg(FALSE, NoVal, FALSE)

\* ------------------------------------------------------------------------
\* get_markets (lines 169-290)
\* ------------------------------------------------------------------------
\* The per-second rate times the seconds of a year preferred to the answer
\* of the per-year method.
BorrowRateYearPerSecondFirst(rate_model, mk, cash, total_borrows, total_reserves) ==
    LET rm == mk.rateModel
        perYear == CallFn(rate_model, Method(rm.perYearAbi, rm.borrowYear = NoVal, rm.borrowYear),
                          <<cash, total_borrows, total_reserves>>, NoVal)
        perSecond == CallFn(rate_model, IntRead(rm.borrowRate),
                            <<cash, total_borrows, total_reserves>>, NoVal)
        seconds == CallFn(rate_model, Method(rm.perYearAbi, rm.seconds = NoVal, rm.seconds),
                          <<>>, DEFAULT_SECONDS_PER_YEAR)
    IN  IF perSecond.raised THEN perSecond
        ELSE IF perSecond.value # NoVal THEN Returned(perSecond.value * seconds.value)
        ELSE perYear

\* lines 190-196, 205-211
BorrowRateYear(rate_model, mk, cash, total_borrows, total_reserves) ==
    LET rm == mk.rateModel
        perYear == CallFn(rate_model, Method(rm.perYearAbi, rm.borrowYear = NoVal, rm.borrowYear),
                          <<cash, total_borrows, total_reserves>>, NoVal)
        perSecond == CallFn(rate_model, IntRead(rm.borrowRate),
                            <<cash, total_borrows, total_reserves>>, NoVal)
        seconds == CallFn(rate_model, Method(rm.perYearAbi, rm.seconds = NoVal, rm.seconds),
                          <<>>, DEFAULT_SECONDS_PER_YEAR)
    IN  IF perYear.raised THEN perYear
        ELSE IF perYear.value # NoVal THEN perYear
        ELSE IF perSecond.raised THEN perSecond
        ELSE IF perSecond.value # NoVal THEN Returned(perSecond.value * seconds.value)
        ELSE Returned(NoVal)

\* lines 197-204, 212-223
SupplyRateYear(rate_model, mk, cash, total_borrows, total_reserves, reserve_factor) ==
    LET rm == mk.rateModel
        perYear == CallFn(rate_model, Method(rm.perYearAbi, rm.supplyYear = NoVal, rm.supplyYear),
                          <<cash, total_borrows, total_reserves, reserve_factor>>, NoVal)
        perSecond == CallFn(rate_model, IntRead(rm.supplyRate),
                            <<cash, total_borrows, total_reserves, reserve_factor>>, NoVal)
        seconds == CallFn(rate_model, Method(rm.perYearAbi, rm.seconds = NoVal, rm.seconds),
                          <<>>, DEFAULT_SECONDS_PER_YEAR)
    IN  IF perYear.raised THEN perYear
        ELSE IF perYear.value # NoVal THEN perYear
        ELSE IF perSecond.raised THEN perSecond
        ELSE IF perSecond.value # NoVal THEN Returned(perSecond.value * seconds.value)
        ELSE Returned(NoVal)

\* The quotient taken whatever the sign of the denominator.
UtilizationUnguarded(cash, total_borrows, total_reserves) ==
    IF cash = NoVal \/ total_borrows = NoVal THEN NoRatio
    ELSE Ratio(total_borrows, cash + total_borrows - total_reserves)

\* lines 225-229; total_reserves is 0 when its read failed (line 180), so
\* that `total_reserves or 0` is total_reserves.
Utilization(cash, total_borrows, total_reserves) ==
    IF cash = NoVal \/ total_borrows = NoVal THEN NoRatio
    ELSE LET denom == cash + total_borrows - total_reserves
         IN  IF denom > 0 THEN Ratio(total_borrows, denom) ELSE NoRatio

\* lines 231-236, 418-423, 532-537: (collateral_factor, is_listed)
MarketConfiguration(comptroller, mk) ==
    LET cfg == CallFn(comptroller, Method(TRUE, ~mk.cfg.ok, mk.cfg), <<>>, CfgFailing)
    IN  IF comptroller # NoAddr /\ cfg.value.ok THEN cfg.value ELSE CfgFailing

\* lines 94-97
GetPrice(price_oracle, asset, mk) ==
    IF price_oracle = NoAddr \/ asset = NoAddr THEN NoVal
    ELSE CallFn(price_oracle, IntRead(mk.price), <<>>, NoVal).value

\* lines 171-289: the view of one market, or the exception its reads raise.
MarketView(reader, mk) ==
    LET market == mk.addr
        underlying == CallFn(market, AddrRead(mk.underlying), <<>>, NoAddr).value
        erc20 == GetErc20(underlying)
        symbol == IF erc20 # NoAddr THEN CallFn(erc20, Method(TRUE, mk.symbol = "", mk.symbol), <<>>, "").value ELSE ""
        decimals == IF erc20 # NoAddr THEN CallFn(erc20, IntRead(mk.decimals), <<>>, NoVal).value ELSE NoVal
        total_supply == CallFn(market, IntRead(mk.totalSupply), <<>>, NoVal).value
        total_borrows == CallFn(market, IntRead(mk.totalBorrows), <<>>, NoVal).value
        total_reserves == CallFn(market, IntRead(mk.totalReserves), <<>>, 0).value
        cash == CallFn(market, IntRead(mk.cash), <<>>, NoVal).value
        exchange_rate == CallFn(market, IntRead(mk.exchangeRate), <<>>, NoVal).value
        interest_rate_model == CallFn(market, AddrRead(mk.interestRateModel), <<>>, NoAddr).value
        reserve_factor == CallFn(market, IntRead(mk.reserveFactor), <<>>, 0).value
        rate_model == GetRateModel(interest_rate_model)
        rated == rate_model # NoAddr /\ cash # NoVal /\ total_borrows # NoVal
        borrow_rate_year ==
            IF rated THEN BorrowRateYear(rate_model, mk, cash, total_borrows, total_reserves)
            ELSE Returned(NoVal)
        supply_rate_year ==
            IF rated THEN SupplyRateYear(rate_model, mk, cash, total_borrows, total_reserves, reserve_factor)
            ELSE Returned(NoVal)
        cfg == MarketConfiguration(reader.comptroller, mk)
        price_raw == GetPrice(reader.price_oracle, underlying, mk)
        \* lines 244-251: int() truncates the product to raw units, the float
        \* of line 248 keeps its fraction
        supplied == total_supply # NoVal /\ exchange_rate # NoVal
        supply_underlying_raw == IF supplied THEN (total_supply * exchange_rate) \div WAD ELSE NoVal
        supply_underlying ==
            IF supplied /\ decimals # NoVal
            THEN total_supply * exchange_rate * (Pow10(TokenDecimals) \div Pow10(decimals))
            ELSE NoVal
        supply_rate_dec == RateToDecimal(supply_rate_year.value)
        borrow_rate_dec == RateToDecimal(borrow_rate_year.value)
    IN  IF borrow_rate_year.raised THEN borrow_rate_year
        ELSE IF supply_rate_year.raised THEN supply_rate_year
        ELSE Returned(
          [market |-> market,
           underlying |-> underlying,
           symbol |-> symbol,
           decimals |-> decimals,
           totalSupply |-> supply_underlying,
           totalSupplyUsd |-> AmountToUsdQuantized(supply_underlying_raw, decimals, price_raw),
           totalBorrows |-> AmountToToken(total_borrows, decimals),
           totalBorrowsUsd |-> AmountToUsdQuantized(total_borrows, decimals, price_raw),
           totalReserves |-> AmountToToken(total_reserves, decimals),
           cash |-> AmountToToken(cash, decimals),
           exchangeRate |-> WadToFloat(exchange_rate),
           utilization |-> Utilization(cash, total_borrows, total_reserves),
           borrowRatePerYear |-> borrow_rate_dec,
           borrowAprPct |-> DecimalToPct(borrow_rate_dec),
           supplyRatePerYear |-> supply_rate_dec,
           supplyAprPct |-> DecimalToPct(supply_rate_dec),
           priceUsd |-> PriceToUsdQuantized(price_raw),
           collateralFactor |-> WadToFloat(cfg.cf),
           isListed |-> IF cfg.ok THEN Some(cfg.listed) ELSE None])

\* lines 170-171, 290: the loop over self.markets; an exception ends it.
RECURSIVE GetMarketsFrom(_, _, _)
GetMarketsFrom(reader, markets, results) ==
    IF markets = <<>> THEN Returned(results)
    ELSE LET view == MarketView(reader, Head(markets))
         IN  IF view.raised THEN view
             ELSE GetMarketsFrom(reader, Tail(markets), Append(results, view.value))

GetMarketsOf(c) == GetMarketsFrom(c.reader, c.markets, <<>>)

\* ------------------------------------------------------------------------
\* get_markets_summary (lines 292-322)
\* ------------------------------------------------------------------------
\* `x or 0`
OrZero(x) == IF x = NoVal THEN 0 ELSE x

\* lines 299-315: the four running sums after one more market; supply and
\* borrow in micro-dollars, collateral and earning in micro-dollars / WAD.
SummaryStep(sums, market) ==
    LET collateral_factor == OrZero(market.collateralFactor)
        supply_rate == OrZero(market.supplyRatePerYear)
        supply_usd == ToDecimalFromFloat(market.totalSupplyUsd)
        borrow_usd == ToDecimalFromFloat(market.totalBorrowsUsd)
        withSupply ==
            IF supply_usd # NoVal
            THEN [sums EXCEPT !.total_supply = @ + supply_usd,
                              !.total_collateral = @ + supply_usd * collateral_factor,
                              !.total_earning = @ + supply_usd * supply_rate]
            ELSE sums
    IN  IF borrow_usd # NoVal
        THEN [withSupply EXCEPT !.total_borrow = @ + borrow_usd]
        ELSE withSupply

RECURSIVE SummaryLoop(_, _)
SummaryLoop(sums, markets) ==
    IF markets = <<>> THEN sums
    ELSE SummaryLoop(SummaryStep(sums, Head(markets)), Tail(markets))

\* lines 292-322, on the result of get_markets
SummaryOf(markets) ==
    LET sums == SummaryLoop([total_supply |-> 0, total_borrow |-> 0,
                             total_collateral |-> 0, total_earning |-> 0],
                            markets.value)
    IN  IF markets.raised THEN markets
        ELSE Returned(
          [totalSupplyUsd |-> FormatUsd(sums.total_supply, 1),
           totalEarningUsd |-> FormatUsd(sums.total_earning, WAD),
           totalBorrowUsd |-> FormatUsd(sums.total_borrow, 1),
           totalCollateralUsd |-> FormatUsd(sums.total_collateral, WAD)])

\* line 293
GetMarketsSummaryOf(c) == The({ SummaryOf(markets) : markets \in {GetMarketsOf(c)} })

\* ------------------------------------------------------------------------
\* The state the reader reads
\* ------------------------------------------------------------------------
\* ChainReader.__init__ (lines 16-38): the bound handles.  The comptroller is
\* the contract at account 1, the price oracle the one at account 2.
Reader(comptroller, price_oracle) == [comptroller |-> comptroller, price_oracle |-> price_oracle]
ReaderBound == Reader(BuildContract(Addr(1, "lower")), BuildContract(Addr(2, "lower")))

\* The on-chain state of the market k.
Market(k, decimals, totalSupply, totalBorrows, totalReserves, cash, reserveFactor, interestRateModel, rateModel, cfg, price, balanceOf, borrowBalance, walletBalance) ==
    [addr |-> MarketAddr(k), underlying |-> AssetAddr(k), symbol |-> "SYM",
     decimals |-> decimals, dTokenDecimals |-> TokenDecimals,
     totalSupply |-> totalSupply, totalBorrows |-> totalBorrows,
     totalReserves |-> totalReserves, cash |-> cash, exchangeRate |-> 15,
     reserveFactor |-> reserveFactor, interestRateModel |-> interestRateModel,
     rateModel |-> rateModel, cfg |-> cfg, price |-> price,
     balanceOf |-> balanceOf, borrowBalance |-> borrowBalance,
     walletBalance |-> walletBalance]

\* getAccountLiquidity of the account the requests are about: fails, or
\* returns (liquidity, shortfall).
Liquidity(ok, liquidity, shortfall) == [ok |-> ok, liquidity |-> liquidity, shortfall |-> shortfall]
NoLiquidity == Liquidity(FALSE, NoVal, NoVal)

\* app.state.chain (main.py line 41): the reader and the chain behind it.
Chain(started, reader, markets, liquidity, pools) ==
    [started |-> started, reader |-> reader, markets |-> markets,
     liquidity |-> liquidity, pools |-> pools]
ChainNotStarted == Chain(FALSE, Reader(NoAddr, NoAddr), <<>>, NoLiquidity, <<>>)

\* All sequences of n markets, the k-th drawn from envs[k].
RECURSIVE MarketLists(_, _)
MarketLists(n, envs) ==
    IF n = 0 THEN {<<>>}
    ELSE { Append(ms, mk) : ms \in MarketLists(n - 1, envs), mk \in envs[n] }

\* ------------------------------------------------------------------------
\* get_account (lines 387-502)
\* ------------------------------------------------------------------------
\* lines 162-167: a token amount in units of 1 / TokenScale times a price in
\* micro-dollars, in units of 1 / (1000000 * TokenScale) of a dollar.
TokenToUsdFromPriceUsd(amount, price_usd) ==
    IF amount = NoVal \/ price_usd = NoVal THEN NoVal
    ELSE ToDecimalFromFloat(amount) * ToDecimalFromFloat(price_usd)

\* lines 401-464: the position of the account in one market, or the
\* exception its reads raise.  The rate model is asked for its per-year
\* rates with whatever getCash and totalBorrows returned.
AccountPosition(reader, mk, checksum) ==
    LET market == mk.addr
        underlying == CallFn(market, AddrRead(mk.underlying), <<>>, NoAddr).value
        erc20 == GetErc20(underlying)
        symbol == IF erc20 # NoAddr THEN CallFn(erc20, Method(TRUE, mk.symbol = "", mk.symbol), <<>>, "").value ELSE ""
        decimals == IF erc20 # NoAddr THEN CallFn(erc20, IntRead(mk.decimals), <<>>, NoVal).value ELSE NoVal
        dtoken_decimals == CallFn(market, IntRead(mk.dTokenDecimals), <<>>, NoVal).value
        supply_dtoken_raw == CallFn(market, IntRead(mk.balanceOf), <<checksum.id>>, NoVal).value
        borrow_balance_raw == CallFn(market, IntRead(mk.borrowBalance), <<checksum.id>>, NoVal).value
        exchange_rate == CallFn(market, IntRead(mk.exchangeRate), <<>>, NoVal).value
        underlying_supply_raw ==
            IF supply_dtoken_raw # NoVal /\ exchange_rate # NoVal
            THEN (supply_dtoken_raw * exchange_rate) \div WAD
            ELSE NoVal
        cfg == MarketConfiguration(reader.comptroller, mk)
        price_raw == GetPrice(reader.price_oracle, underlying, mk)
        price_usd == PriceToUsdQuantized(price_raw)
        rm == mk.rateModel
        rate_model == GetRateModel(CallFn(market, AddrRead(mk.interestRateModel), <<>>, NoAddr).value)
        cash == CallFn(market, IntRead(mk.cash), <<>>, NoVal).value
        total_borrows == CallFn(market, IntRead(mk.totalBorrows), <<>>, NoVal).value
        total_reserves == CallFn(market, IntRead(mk.totalReserves), <<>>, 0).value
        reserve_factor == CallFn(market, IntRead(mk.reserveFactor), <<>>, 0).value
        supply_rate_raw ==
            CallFn(rate_model, Method(rm.perYearAbi, rm.supplyYear = NoVal, rm.supplyYear),
                   <<cash, total_borrows, total_reserves, reserve_factor>>, NoVal)
        borrow_rate_raw ==
            CallFn(rate_model, Method(rm.perYearAbi, rm.borrowYear = NoVal, rm.borrowYear),
                   <<cash, total_borrows, total_reserves>>, NoVal)
    IN  IF supply_rate_raw.raised THEN supply_rate_raw
        ELSE IF borrow_rate_raw.raised THEN borrow_rate_raw
        ELSE Returned(
          [market |-> market,
           underlying |-> underlying,
           symbol |-> symbol,
           decimals |-> decimals,
           dTokenDecimals |-> dtoken_decimals,
           supplyDToken |-> AmountToToken(supply_dtoken_raw, dtoken_decimals),
           supplyUnderlying |-> AmountToToken(underlying_supply_raw, decimals),
           borrowBalance |-> AmountToToken(borrow_balance_raw, decimals),
           exchangeRate |-> WadToFloat(exchange_rate),
           price |-> price_usd,
           priceUsd |-> price_usd,
           supplyRatePerYear |-> RateToDecimal(supply_rate_raw.value),
           borrowRatePerYear |-> RateToDecimal(borrow_rate_raw.value),
           collateralFactor |-> WadToFloat(cfg.cf),
           isListed |-> IF cfg.ok THEN Some(cfg.listed) ELSE None])

\* lines 399-400, 442: the loop over self.markets; an exception ends it.
RECURSIVE AccountPositionsFrom(_, _, _, _)
AccountPositionsFrom(reader, markets, checksum, positions) ==
    IF markets = <<>> THEN Returned(positions)
    ELSE LET position == AccountPosition(reader, Head(markets), checksum)
         IN  IF position.raised THEN position
             ELSE AccountPositionsFrom(reader, Tail(markets), checksum,
                                       Append(positions, position.value))

\* The supply counted in full as collateral, whatever the collateral factor.
HealthStepUnfactored(totals, pos) ==
    LET price_usd == pos.priceUsd
        supply_usd == TokenToUsdFromPriceUsd(pos.supplyUnderlying, price_usd)
        borrow_usd == TokenToUsdFromPriceUsd(pos.borrowBalance, price_usd)
        withSupply ==
            IF supply_usd # NoVal
            THEN [totals EXCEPT !.total_collateral_usd = @ + supply_usd * WAD]
            ELSE totals
    IN  IF borrow_usd # NoVal
        THEN [withSupply EXCEPT !.total_borrow_usd = @ + borrow_usd]
        ELSE withSupply

\* lines 468-476: one more position in the two totals; the collateral in
\* units of 1 / WAD of the borrow's.
HealthStep(totals, pos) ==
    LET price_usd == pos.priceUsd
        cf == OrZero(pos.collateralFactor)
        supply_usd == TokenToUsdFromPriceUsd(pos.supplyUnderlying, price_usd)
        borrow_usd == TokenToUsdFromPriceUsd(pos.borrowBalance, price_usd)
        withSupply ==
            IF supply_usd # NoVal
            THEN [totals EXCEPT !.total_collateral_usd = @ + supply_usd * cf]
            ELSE totals
    IN  IF borrow_usd # NoVal
        THEN [withSupply EXCEPT !.total_borrow_usd = @ + borrow_usd]
        ELSE withSupply

RECURSIVE HealthLoop(_, _)
HealthLoop(totals, positions) ==
    IF positions = <<>> THEN totals
    ELSE HealthLoop(HealthStep(totals, Head(positions)), Tail(positions))

\* lines 478-480 without the guard of line 479: the quotient whatever the
\* borrow is.
HealthFactorUnguarded(positions) ==
    LET totals == HealthLoop([total_collateral_usd |-> 0, total_borrow_usd |-> 0], positions)
    IN  Ratio(totals.total_collateral_usd, totals.total_borrow_usd * WAD)

\* lines 466-480
HealthFactor(positions) ==
    LET totals == HealthLoop([total_collateral_usd |-> 0, total_borrow_usd |-> 0], positions)
    IN  IF totals.total_borrow_usd > 0
        THEN Ratio(totals.total_collateral_usd, totals.total_borrow_usd * WAD)
        ELSE NoRatio

\* lines 482-491: liquidity / 10^8 quantized to micro-dollars.
LiquidityUsd(value) == IF value = NoVal THEN NoVal ELSE RoundHalfEven(value, UsdQuantum)

\* The contract methods get_account calls once the address is validated.
AccountReads(c) ==
    (IF c.reader.comptroller # NoAddr THEN {"getAccountLiquidity"} ELSE {})
    \cup (IF c.markets = <<>> THEN {}
          ELSE {"underlying", "symbol", "decimals", "balanceOf", "borrowBalanceStored",
                "exchangeRateStored", "getMarketConfiguration", "getAssetPrice",
                "interestRateModel", "getCash", "totalBorrows", "totalReserves",
                "reserveFactorMantissa"})

\* lines 392-502, on the positions the loop of lines 399-464 comes to
AccountOf(c, checksum, positions) ==
    LET result == IF c.reader.comptroller # NoAddr
                  THEN CallFn(c.reader.comptroller, Method(TRUE, ~c.liquidity.ok, c.liquidity),
                              <<checksum.id>>, NoLiquidity).value
                  ELSE NoLiquidity
        liquidity == IF result.ok THEN result.liquidity ELSE NoVal
        shortfall == IF result.ok THEN result.shortfall ELSE NoVal
    IN  IF positions.raised THEN Answer(positions, AccountReads(c))
        ELSE Answer(Returned(
               [account |-> checksum,
                liquidity |-> LiquidityUsd(liquidity),
                liquidityUsd |-> LiquidityUsd(liquidity),
                shortfall |-> LiquidityUsd(shortfall),
                shortfallUsd |-> LiquidityUsd(shortfall),
                isHealthy |-> IF shortfall # NoVal THEN Some(shortfall = 0) ELSE None,
                healthFactor |-> HealthFactor(positions.value),
                positions |-> positions.value]), AccountReads(c))

\* lines 387-390: the address is validated before anything is read.
GetAccountOf(c, account) ==
    LET checksum == Checksum(account)
    IN  IF checksum = NoAddr THEN Answer(Thrown("ValueError"), {})
        ELSE The({ AccountOf(c, checksum, positions) :
                     positions \in {AccountPositionsFrom(c.reader, c.markets, checksum, <<>>)} })

\* ------------------------------------------------------------------------
\* get_account_overview (lines 324-385)
\* ------------------------------------------------------------------------
\* lines 334-351 with the rates summed as they are, not weighted.
OverviewStepUnweighted(totals, pos) ==
    LET price_usd == pos.priceUsd
        supply_rate == OrZero(pos.supplyRatePerYear)
        borrow_rate == OrZero(pos.borrowRatePerYear)
        cf == OrZero(pos.collateralFactor)
        supply_usd == TokenToUsdFromPriceUsd(pos.supplyUnderlying, price_usd)
        borrow_usd == TokenToUsdFromPriceUsd(pos.borrowBalance, price_usd)
        withSupply ==
            IF supply_usd # NoVal
            THEN [totals EXCEPT !.supply_total = @ + supply_usd,
                                !.collateral_total = @ + supply_usd * cf,
                                !.weighted_supply_rate = @ + supply_rate]
            ELSE totals
    IN  IF borrow_usd # NoVal
        THEN [withSupply EXCEPT !.borrow_total = @ + borrow_usd,
                                !.weighted_borrow_rate = @ + borrow_rate]
        ELSE withSupply

\* lines 334-351: one more position in the five totals.
OverviewStep(totals, pos) ==
    LET price_usd == pos.priceUsd
        supply_rate == OrZero(pos.supplyRatePerYear)
        borrow_rate == OrZero(pos.borrowRatePerYear)
        cf == OrZero(pos.collateralFactor)
        supply_usd == TokenToUsdFromPriceUsd(pos.supplyUnderlying, price_usd)
        borrow_usd == TokenToUsdFromPriceUsd(pos.borrowBalance, price_usd)
        withSupply ==
            IF supply_usd # NoVal
            THEN [totals EXCEPT !.supply_total = @ + supply_usd,
                                !.collateral_total = @ + supply_usd * cf,
                                !.weighted_supply_rate = @ + supply_usd * supply_rate]
            ELSE totals
    IN  IF borrow_usd # NoVal
        THEN [withSupply EXCEPT !.borrow_total = @ + borrow_usd,
                                !.weighted_borrow_rate = @ + borrow_usd * borrow_rate]
        ELSE withSupply

RECURSIVE OverviewLoop(_, _)
OverviewLoop(totals, positions) ==
    IF positions = <<>> THEN totals
    ELSE OverviewLoop(OverviewStep(totals, Head(positions)), Tail(positions))

\* lines 326-385, on the result of get_account
OverviewOf(data) ==
    LET totals == OverviewLoop([supply_total |-> 0, borrow_total |-> 0, collateral_total |-> 0,
                                weighted_supply_rate |-> 0, weighted_borrow_rate |-> 0],
                               data.value.positions)
        liquidity_dec == ToDecimalFromFloat(data.value.liquidityUsd)
        shortfall_dec == ToDecimalFromFloat(data.value.shortfallUsd)
    IN  IF data.raised THEN data
        ELSE Answer(Returned(
               [account |-> data.value.account,
                netSupplyAPR |-> IF totals.supply_total > 0
                                 THEN Ratio(totals.weighted_supply_rate, totals.supply_total * WAD)
                                 ELSE Ratio(0, 1),
                netBorrowAPR |-> IF totals.borrow_total > 0
                                 THEN Ratio(totals.weighted_borrow_rate, totals.borrow_total * WAD)
                                 ELSE Ratio(0, 1),
                healthFactor |-> IF totals.borrow_total > 0
                                 THEN Ratio(totals.collateral_total, totals.borrow_total * WAD)
                                 ELSE NoRatio,
                collateralValueUsd |-> FormatUsd(totals.supply_total, TokenScale),
                liquidationPointUsd |-> FormatUsd(shortfall_dec, 1),
                borrowCapacityUsd |-> FormatUsd(liquidity_dec, 1),
                availableToBorrowUsd |-> FormatUsd(liquidity_dec, 1)]), data.reads)

\* line 325
GetAccountOverviewOf(c, account) ==
    The({ OverviewOf(data) : data \in {GetAccountOf(c, account)} })

\* ------------------------------------------------------------------------
\* get_account_market (lines 504-557)
\* ------------------------------------------------------------------------
\* str.lower() of an address string: the spellings of one account that are
\* hex digits become one string, the other strings stay what they are.
LowerText(a) ==
    IF a.cs \in {"lower", "checksum", "badsum"} THEN Addr(a.id, "lower") ELSE a

\* A handle bound to an address where no market lives: every call fails.
DeadMarketAt(address) ==
    [addr |-> address, underlying |-> NoAddr, symbol |-> "",
     decimals |-> NoVal, dTokenDecimals |-> NoVal,
     totalSupply |-> NoVal, totalBorrows |-> NoVal,
     totalReserves |-> NoVal, cash |-> NoVal, exchangeRate |-> NoVal,
     reserveFactor |-> NoVal, interestRateModel |-> NoAddr,
     rateModel |-> RateModelFailing, cfg |-> CfgFailing, price |-> NoVal,
     balanceOf |-> NoVal, borrowBalance |-> NoVal, walletBalance |-> NoVal]

NoMarket == DeadMarketAt(NoAddr)

\* lines 509-515 without the ad hoc binding of lines 514-515.
FindMarketPreBoundOnly(c, market_address) ==
    LET found == { i \in DOMAIN c.markets :
                     LowerText(c.markets[i].addr) = LowerText(market_address) }
    IN  IF found # {} THEN c.markets[CHOOSE i \in found : \A j \in found : i <= j]
        ELSE NoMarket

\* lines 509-515: the first of self.markets at the address, in any letter
\* case, or a new handle at the address, or None.
FindMarket(c, market_address) ==
    LET found == { i \in DOMAIN c.markets :
                     LowerText(c.markets[i].addr) = LowerText(market_address) }
    IN  IF found # {} THEN c.markets[CHOOSE i \in found : \A j \in found : i <= j]
        ELSE IF BuildContract(market_address) # NoAddr
             THEN DeadMarketAt(BuildContract(market_address))
             ELSE NoMarket

AccountMarketReads ==
    {"underlying", "symbol", "decimals", "balanceOf", "borrowBalanceStored",
     "exchangeRateStored", "getMarketConfiguration", "getAssetPrice"}

\* lines 504-557.  market_address.lower() (line 511) of a market_address
\* that is None is an AttributeError; the handler never passes None.
GetAccountMarketOf(c, account, market_address) ==
    LET checksum == Checksum(account)
        mk == FindMarket(c, market_address)
        market == mk.addr
        underlying == CallFn(market, AddrRead(mk.underlying), <<>>, NoAddr).value
        erc20 == GetErc20(underlying)
        symbol == IF erc20 # NoAddr THEN CallFn(erc20, Method(TRUE, mk.symbol = "", mk.symbol), <<>>, "").value ELSE ""
        decimals == IF erc20 # NoAddr THEN CallFn(erc20, IntRead(mk.decimals), <<>>, NoVal).value ELSE NoVal
        dtoken_decimals == CallFn(market, IntRead(mk.dTokenDecimals), <<>>, NoVal).value
        supply_dtoken_raw == CallFn(market, IntRead(mk.balanceOf), <<checksum.id>>, NoVal).value
        borrow_balance_raw == CallFn(market, IntRead(mk.borrowBalance), <<checksum.id>>, NoVal).value
        exchange_rate == CallFn(market, IntRead(mk.exchangeRate), <<>>, NoVal).value
        underlying_supply_raw ==
            IF supply_dtoken_raw # NoVal /\ exchange_rate # NoVal
            THEN (supply_dtoken_raw * exchange_rate) \div WAD
            ELSE NoVal
        cfg == MarketConfiguration(c.reader.comptroller, mk)
        price_raw == GetPrice(c.reader.price_oracle, underlying, mk)
        price_usd == PriceToUsdQuantized(price_raw)
    IN  IF checksum = NoAddr THEN Answer(Thrown("ValueError"), {})
        ELSE IF market_address = NoAddr /\ c.markets # <<>>
             THEN Answer(Thrown("AttributeError"), {})
        ELSE IF mk = NoMarket THEN Answer(Thrown("ValueError"), {})
        ELSE Answer(Returned(
               [account |-> checksum,
                market |-> market,
                underlying |-> underlying,
                symbol |-> symbol,
                decimals |-> decimals,
                dTokenDecimals |-> dtoken_decimals,
                supplyDToken |-> AmountToToken(supply_dtoken_raw, dtoken_decimals),
                supplyUnderlying |-> AmountToToken(underlying_supply_raw, decimals),
                borrowBalance |-> AmountToToken(borrow_balance_raw, decimals),
                exchangeRate |-> WadToFloat(exchange_rate),
                price |-> price_usd,
                priceUsd |-> price_usd,
                collateralFactor |-> WadToFloat(cfg.cf),
                isListed |-> IF cfg.ok THEN Some(cfg.listed) ELSE None]), AccountMarketReads)

\* ------------------------------------------------------------------------
\* get_wallet_balances (lines 559-602)
\* ------------------------------------------------------------------------
\* An entry of the `assets` list: a string that is a symbol (text) or the
\* spelling of an address (addr), the other part being empty.
AssetSymbol(text) == [text |-> text, addr |-> NoAddr]
AssetAddress(addr) == [text |-> "", addr |-> addr]

\* str.upper() on the symbols of the model.
Upper(text) == IF text = "sym" THEN "SYM" ELSE IF text = "tkn" THEN "TKN" ELSE text

\* dict[key] = value on a dict kept as the sequence of its items.
DictSet(dict, key, value) ==
    IF \E i \in DOMAIN dict : dict[i].key = key
    THEN [i \in DOMAIN dict |-> IF dict[i].key = key THEN [key |-> key, value |-> value] ELSE dict[i]]
    ELSE Append(dict, [key |-> key, value |-> value])

\* lines 564-570
RECURSIVE AssetMapFrom(_, _)
AssetMapFrom(markets, asset_map) ==
    IF markets = <<>> THEN asset_map
    ELSE LET mk == Head(markets)
             underlying == CallFn(mk.addr, AddrRead(mk.underlying), <<>>, NoAddr).value
             erc20 == GetErc20(underlying)
             symbol == IF erc20 # NoAddr
                       THEN CallFn(erc20, Method(TRUE, mk.symbol = "", mk.symbol), <<>>, "").value
                       ELSE ""
         IN  AssetMapFrom(Tail(markets),
                          IF symbol # "" THEN DictSet(asset_map, Upper(symbol), underlying)
                          ELSE asset_map)

\* lines 572-582: the (symbol, address) pairs to report.
RECURSIVE SelectAssets(_, _, _)
SelectAssets(assets, asset_map, selected) ==
    IF assets = <<>> THEN selected
    ELSE LET asset == Head(assets)
             key == Upper(asset.text)
             hits == { i \in DOMAIN asset_map : asset_map[i].key = key }
         IN  SelectAssets(Tail(assets), asset_map,
                 IF hits # {}
                 THEN Append(selected, [sym |-> key, addr |-> asset_map[CHOOSE i \in hits : TRUE].value])
                 ELSE IF IsAddress(asset.addr)
                      THEN Append(selected, [sym |-> "", addr |-> asset.addr])
                      ELSE selected)

\* The token at an address: the underlying of the market it backs, or a
\* contract on which every call fails.
TokenAt(c, addr) ==
    LET backed == { i \in DOMAIN c.markets : c.markets[i].underlying.id = addr.id }
    IN  IF backed # {} THEN c.markets[CHOOSE i \in backed : \A j \in backed : i <= j]
        ELSE DeadMarketAt(NoAddr)

\* lines 585-600
WalletBalance(c, sel, checksum) ==
    LET tk == TokenAt(c, sel.addr)
        erc20 == GetErc20(sel.addr)
        symbol == IF erc20 # NoAddr
                  THEN CallFn(erc20, Method(TRUE, tk.symbol = "", tk.symbol), <<>>, "").value
                  ELSE sel.sym
        decimals == IF erc20 # NoAddr THEN CallFn(erc20, IntRead(tk.decimals), <<>>, NoVal).value ELSE NoVal
        balance_raw == IF erc20 # NoAddr
                       THEN CallFn(erc20, IntRead(tk.walletBalance), <<checksum.id>>, NoVal).value
                       ELSE NoVal
        price_raw == GetPrice(c.reader.price_oracle, sel.addr, tk)
    IN  [symbol |-> symbol,
         underlying |-> sel.addr,
         decimals |-> decimals,
         balance |-> AmountToToken(balance_raw, decimals),
         price |-> PriceToUsdQuantized(price_raw),
         priceUsd |-> PriceToUsdQuantized(price_raw)]

WalletReads(c, selected) ==
    (IF c.markets = <<>> THEN {} ELSE {"underlying", "symbol"})
    \cup (IF selected = <<>> THEN {} ELSE {"symbol", "decimals", "balanceOf", "getAssetPrice"})

\* lines 559-602; assets is <<>> for None.
GetWalletBalancesOf(c, account, assets) ==
    LET checksum == Checksum(account)
        asset_map == AssetMapFrom(c.markets, <<>>)
        selected ==
            IF assets # <<>> THEN SelectAssets(assets, asset_map, <<>>)
            ELSE [i \in DOMAIN asset_map |-> [sym |-> asset_map[i].key, addr |-> asset_map[i].value]]
    IN  IF checksum = NoAddr THEN Answer(Thrown("ValueError"), {})
        ELSE Answer(Returned(
               [account |-> checksum,
                balances |-> [i \in DOMAIN selected |-> WalletBalance(c, selected[i], checksum)]]),
               WalletReads(c, selected))

\* ------------------------------------------------------------------------
\* get_liquidity_mining, get_liquidity_mining_account (lines 660-787)
\* ------------------------------------------------------------------------
\* A reward rate or a stake is an unsigned integer of up to 256 bits; the
\* model keeps its order of magnitude: None, 0, or 10^exp.
Qty(kind, exp) == [kind |-> kind, exp |-> exp]
NoQty == Qty("none", 0)
ZeroQty == Qty("zero", 0)
Pow10Qty(exp) == Qty("pow10", exp)

\* SECONDS_PER_YEAR (line 7) is 3.1536 * 10^YearExp.
YearExp == 7
\* The largest float is 1.797... * 10^308: 3.1536 * 10^e is a float for
\* e < FloatOverflowExp and float() makes it inf from there on (line 684).
FloatOverflowExp == 308
\* math.exp(x) is a float up to x = 709.78...: math.exp(3.1536 * 10^e)
\* raises OverflowError for a finite x from e = ExpOverflowExp on (line 685).
ExpOverflowExp == 3

\* A float of the mining figures: None, 0.0, m * 10^exp or inf.
Float(kind, exp) == [kind |-> kind, exp |-> exp]
NoFloat == Float("none", 0)
ZeroFloat == Float("zero", 0)
InfFloat == Float("inf", 0)
\* 3.1536 * 10^exp, as float() returns it
AprFloat(exp) == IF exp >= FloatOverflowExp THEN InfFloat ELSE Float("finite", exp)

\* The pool k is the contract at account 40 + k, its staking token the one
\* at 50 + k; the rewards token of every pool is the one at account 60.
PoolAddr(k) == Addr(40 + k, "checksum")
StakingTokenAddr(k) == Addr(50 + k, "checksum")
RewardsTokenAddr == Addr(60, "checksum")

\* The on-chain state of the pool k.
Pool(k, stakingDecimals, rewardsDecimals, rewardRate, totalStaked) ==
    [addr |-> PoolAddr(k), stakingToken |-> StakingTokenAddr(k),
     rewardsToken |-> RewardsTokenAddr, stakingSymbol |-> "STK", rewardsSymbol |-> "GOV",
     stakingDecimals |-> stakingDecimals, rewardsDecimals |-> rewardsDecimals,
     rewardRate |-> rewardRate, totalStaked |-> totalStaked,
     stakedBalance |-> Pow10Qty(stakingDecimals), earned |-> Pow10Qty(rewardsDecimals),
     govBalance |-> Pow10Qty(rewardsDecimals),
     rewardPerToken |-> WAD, rewardsDuration |-> 7, periodFinish |-> 9,
     lastTimeRewardApplicable |-> 8]

QtyRead(q) == Method(TRUE, q = NoQty, q)

\* lines 152-155 on a magnitude: amount / 10^decimals as a float.
QtyToToken(amount, decimals) ==
    IF amount = NoQty \/ decimals = NoVal THEN NoFloat
    ELSE IF amount = ZeroQty THEN ZeroFloat
    ELSE IF amount.exp - decimals >= FloatOverflowExp + 1 THEN InfFloat
    ELSE Float("finite", amount.exp - decimals)

\* lines 673-684, 729-740: apr, None when a figure is missing or nothing
\* is staked.
MiningApr(reward_rate, total_staked, rewards_decimals, staking_decimals) ==
    IF \/ reward_rate = NoQty
       \/ total_staked = NoQty
       \/ total_staked = ZeroQty
       \/ rewards_decimals = NoVal
       \/ staking_decimals = NoVal
    THEN NoFloat
    ELSE IF reward_rate = ZeroQty THEN ZeroFloat
    ELSE AprFloat(YearExp + reward_rate.exp - rewards_decimals
                  - (total_staked.exp - staking_decimals))

\* line 685, 741: math.exp(apr) - 1, or the OverflowError it raises.
MiningApy(apr) ==
    IF apr = NoFloat THEN Returned(NoFloat)
    ELSE IF apr = ZeroFloat THEN Returned(ZeroFloat)
    ELSE IF apr = InfFloat THEN Returned(InfFloat)
    ELSE IF apr.exp >= ExpOverflowExp THEN Thrown("OverflowError")
    ELSE Returned(Float("exp-1", apr.exp))

\* lines 663-709: the view of one pool; account is NoAddr for
\* get_liquidity_mining, and the checksummed account for lines 719-765.
PoolView(pl, account) ==
    LET mining == pl.addr
        staking_token == CallFn(mining, AddrRead(pl.stakingToken), <<>>, NoAddr).value
        rewards_token == CallFn(mining, AddrRead(pl.rewardsToken), <<>>, NoAddr).value
        staking_erc20 == GetErc20(staking_token)
        rewards_erc20 == GetErc20(rewards_token)
        staking_decimals == IF staking_erc20 # NoAddr
                            THEN CallFn(staking_erc20, IntRead(pl.stakingDecimals), <<>>, NoVal).value
                            ELSE NoVal
        rewards_decimals == IF rewards_erc20 # NoAddr
                            THEN CallFn(rewards_erc20, IntRead(pl.rewardsDecimals), <<>>, NoVal).value
                            ELSE NoVal
        reward_rate == CallFn(mining, QtyRead(pl.rewardRate), <<>>, NoQty).value
        total_staked == CallFn(mining, QtyRead(pl.totalStaked), <<>>, NoQty).value
        apr == MiningApr(reward_rate, total_staked, rewards_decimals, staking_decimals)
        apy == MiningApy(apr)
        common ==
            [mining |-> mining,
             stakingToken |-> staking_token,
             stakingSymbol |-> IF staking_erc20 # NoAddr
                               THEN CallFn(staking_erc20, Method(TRUE, FALSE, pl.stakingSymbol), <<>>, "").value
                               ELSE "",
             stakingDecimals |-> staking_decimals,
             rewardsToken |-> rewards_token,
             rewardsSymbol |-> IF rewards_erc20 # NoAddr
                               THEN CallFn(rewards_erc20, Method(TRUE, FALSE, pl.rewardsSymbol), <<>>, "").value
                               ELSE "",
             rewardsDecimals |-> rewards_decimals,
             rewardRate |-> IF account = NoAddr THEN QtyToToken(reward_rate, rewards_decimals) ELSE NoFloat,
             totalStaked |-> IF account = NoAddr THEN QtyToToken(total_staked, staking_decimals) ELSE NoFloat,
             rewardPerToken |-> IF account = NoAddr
                                THEN WadToFloat(CallFn(mining, IntRead(pl.rewardPerToken), <<>>, NoVal).value)
                                ELSE NoVal,
             rewardsDuration |-> IF account = NoAddr
                                 THEN CallFn(mining, IntRead(pl.rewardsDuration), <<>>, NoVal).value
                                 ELSE NoVal,
             periodFinish |-> IF account = NoAddr
                              THEN CallFn(mining, IntRead(pl.periodFinish), <<>>, NoVal).value
                              ELSE NoVal,
             lastTimeRewardApplicable |->
                 IF account = NoAddr
                 THEN CallFn(mining, IntRead(pl.lastTimeRewardApplicable), <<>>, NoVal).value
                 ELSE NoVal,
             stakedBalance |->
                 IF account = NoAddr THEN NoFloat
                 ELSE QtyToToken(CallFn(mining, QtyRead(pl.stakedBalance), <<account.id>>, NoQty).value,
                                 staking_decimals),
             earned |->
                 IF account = NoAddr THEN NoFloat
                 ELSE QtyToToken(CallFn(mining, QtyRead(pl.earned), <<account.id>>, NoQty).value,
                                 rewards_decimals),
             stakingTokenPrice |-> 1,
             rewardsTokenPrice |-> 1,
             apr |-> apr,
             apy |-> apy.value]
    IN  IF apy.raised THEN apy ELSE Returned(common)

\* lines 662, 687, 718, 743: the loop over self.liquidity_mining; an
\* exception ends it.
RECURSIVE PoolViewsFrom(_, _, _)
PoolViewsFrom(pools, account, results) ==
    IF pools = <<>> THEN Returned(results)
    ELSE LET view == PoolView(Head(pools), account)
         IN  IF view.raised THEN view
             ELSE PoolViewsFrom(Tail(pools), account, Append(results, view.value))

MiningReads(c) ==
    IF c.pools = <<>> THEN {}
    ELSE {"stakingToken", "rewardsToken", "decimals", "rewardRate", "totalSupply"}

\* lines 660-710
GetLiquidityMiningOf(c) ==
    The({ Answer(results, MiningReads(c)) : results \in {PoolViewsFrom(c.pools, NoAddr, <<>>)} })

\* lines 767-787, on the views the loop of lines 717-765 comes to
MiningAccountOf(c, checksum, results) ==
    LET gov_token == IF results.value # <<>> THEN results.value[1].rewardsToken ELSE NoAddr
        gov_erc20 == GetErc20(gov_token)
        raw_balance == IF gov_erc20 # NoAddr
                       THEN CallFn(gov_erc20, QtyRead(c.pools[1].govBalance), <<checksum.id>>, NoQty).value
                       ELSE NoQty
    IN  IF results.raised THEN Answer(results, MiningReads(c))
        ELSE Answer(Returned(
               [account |-> checksum,
                govToken |-> gov_token,
                govSymbol |-> IF results.value # <<>> THEN results.value[1].rewardsSymbol ELSE "",
                govDecimals |-> IF results.value # <<>> THEN results.value[1].rewardsDecimals ELSE NoVal,
                govBalance |-> IF results.value # <<>>
                               THEN QtyToToken(raw_balance, results.value[1].rewardsDecimals)
                               ELSE NoFloat,
                positions |-> results.value]), MiningReads(c))

\* lines 712-715: the address is validated before anything is read.
GetLiquidityMiningAccountOf(c, account) ==
    LET checksum == Checksum(account)
    IN  IF checksum = NoAddr THEN Answer(Thrown("ValueError"), {})
        ELSE The({ MiningAccountOf(c, checksum, results) :
                     results \in {PoolViewsFrom(c.pools, checksum, <<>>)} })

\* All sequences of n pools, the k-th drawn from envs[k].
RECURSIVE PoolLists(_, _)
PoolLists(n, envs) ==
    IF n = 0 THEN {<<>>}
    ELSE { Append(ps, pl) : ps \in PoolLists(n - 1, envs), pl \in envs[n] }

\* ------------------------------------------------------------------------
\* main.py: the handlers
\* ------------------------------------------------------------------------
\* chain.py lines 171-236: the methods get_markets calls for a market.
MarketReads(c) ==
    IF c.markets = <<>> THEN {}
    ELSE {"underlying", "symbol", "decimals", "totalSupply", "totalBorrows", "totalReserves",
          "getCash", "exchangeRateStored", "interestRateModel", "reserveFactorMantissa",
          "getMarketConfiguration", "getAssetPrice"}

\* The response of a handler: what FastAPI sends for the outcome of its body.
\* A ValueError is turned into a 400 where the handler catches it (lines
\* 104-107, 118-121, 134-137, 185-188); any other exception leaves the
\* handler and is a 500.
Response(op, arg, outcome, catchesValueError) ==
    [op |-> op,
     arg |-> arg,
     status |-> IF ~outcome.raised THEN 200
                ELSE IF catchesValueError /\ outcome.error = "ValueError" THEN 400
                ELSE 500,
     error |-> outcome.error,
     body |-> outcome.value,
     reads |-> outcome.reads]

\* lines 92-94, 101-103, ...: no reader, no answer.
NotInitialized(op, arg) ==
    [op |-> op, arg |-> arg, status |-> 500, error |-> "HTTPException", body |-> <<>>,
     reads |-> {}]

NoRequest == [op |-> "-", arg |-> NoAddr, status |-> 0, error |-> "-", body |-> <<>>,
              reads |-> {}]

\* GET /markets (main.py lines 89-95)
HttpGetMarkets ==
    /\ resp' = IF ~chain.started THEN NotInitialized("get_markets", NoAddr)
               ELSE The({ Response("get_markets", NoAddr, Answer(items, MarketReads(chain)), FALSE) :
                            items \in {GetMarketsOf(chain)} })
    /\ UNCHANGED <<trace, extracted, cache, resolved, chain, called>>

\* GET /markets/summary (main.py lines 141-149)
HttpGetMarketsSummary ==
    /\ resp' = IF ~chain.started THEN NotInitialized("get_markets_summary", NoAddr)
               ELSE The({ Response("get_markets_summary", NoAddr,
                                   Answer(summary, MarketReads(chain)), FALSE) :
                            summary \in {GetMarketsSummaryOf(chain)} })
    /\ UNCHANGED <<trace, extracted, cache, resolved, chain, called>>

\* GET /accounts/{address}?market= (main.py lines 98-108); market is NoAddr
\* when the query has none.
HttpGetAccount(address, market) ==
    /\ resp' = IF ~chain.started THEN NotInitialized("get_account", address)
               ELSE IF market # NoAddr /\ market.cs # "empty"
                    THEN The({ Response("get_account_market", address, result, TRUE) :
                                 result \in {GetAccountMarketOf(chain, address, market)} })
                    ELSE The({ Response("get_account", address, result, TRUE) :
                                 result \in {GetAccountOf(chain, address)} })
    /\ UNCHANGED <<trace, extracted, cache, resolved, chain, called>>

\* GET /account/overview (main.py lines 111-121)
HttpGetAccountOverview(account) ==
    /\ resp' = IF ~chain.started THEN NotInitialized("get_account_overview", account)
               ELSE The({ Response("get_account_overview", account, result, TRUE) :
                            result \in {GetAccountOverviewOf(chain, account)} })
    /\ UNCHANGED <<trace, extracted, cache, resolved, chain, called>>

\* GET /account/wallet (main.py lines 124-138); assets is <<>> when the
\* query has none.
HttpGetAccountWallet(account, assets) ==
    /\ resp' = IF ~chain.started THEN NotInitialized("get_wallet_balances", account)
               ELSE The({ Response("get_wallet_balances", account, result, TRUE) :
                            result \in {GetWalletBalancesOf(chain, account, assets)} })
    /\ UNCHANGED <<trace, extracted, cache, resolved, chain, called>>

\* GET /liquidity-mining (main.py lines 170-176)
HttpGetLiquidityMining ==
    /\ resp' = IF ~chain.started THEN NotInitialized("get_liquidity_mining", NoAddr)
               ELSE The({ Response("get_liquidity_mining", NoAddr, items, FALSE) :
                            items \in {GetLiquidityMiningOf(chain)} })
    /\ UNCHANGED <<trace, extracted, cache, resolved, chain, called>>

\* GET /liquidity-mining/{address} (main.py lines 179-189)
HttpGetLiquidityMiningAccount(address) ==
    /\ resp' = IF ~chain.started THEN NotInitialized("get_liquidity_mining_account", address)
               ELSE The({ Response("get_liquidity_mining_account", address, result, TRUE) :
                            result \in {GetLiquidityMiningAccountOf(chain, address)} })
    /\ UNCHANGED <<trace, extracted, cache, resolved, chain, called>>

\* ------------------------------------------------------------------------
\* The process: the address cache, the reader and its bound handles
\* ------------------------------------------------------------------------
\* A new broadcast of the deployment script replaces the trace file
\* (config.py lines 51-60: RUN_JSON is a path, read at every resolution).
Redeploy(file) ==
    /\ file # trace
    /\ trace' = file
    /\ UNCHANGED <<extracted, cache, resolved, chain, resp, called>>

\* config.py line 170 without the lru_cache: every call resolves anew.
LoadAddressesCallUncached(cached, auto, file, cfg) == LoadAddressesBody(auto, file, cfg)

\* config.py line 170: load_addresses() under lru_cache(maxsize=1), which
\* answers from the cache when it holds a value.
LoadAddressesCall(cached, auto, file, cfg) ==
    IF cached # None THEN Ok(cached, "cache") ELSE LoadAddressesBody(auto, file, cfg)

\* load_addresses() with nothing cached, on a candidate list of any length:
\* the variable trace holds the files _find_run_json_candidates() returns, in
\* its order.
NoSelection == [made |-> FALSE, auto |-> FALSE]

LoadAddressesAmong(auto, cfg) ==
    /\ cache = None
    /\ resolved' = LoadAddressesOver(trace, auto, cfg)
    /\ cache' = IF resolved'.status = "ok" THEN resolved'.value ELSE None
    /\ called' = [made |-> TRUE, auto |-> auto]
    /\ UNCHANGED <<trace, extracted, chain, resp>>

\* load_addresses.cache_clear(), the one way lru_cache (config.py line 170)
\* gives a caller to force the next call to resolve anew.
CacheClear ==
    /\ cache # None
    /\ cache' = None
    /\ UNCHANGED <<trace, extracted, resolved, chain, resp, called>>

\* The contract a market handle bound to addr reads: a market with supply,
\* borrows, a working rate model and a price, whose asset is the account
\* 1000 above it.
MarketAt(addr) ==
    [Market(1, TokenDecimals, 3, 2, 1, 4, 1, RateModelAddr(1), RateModelWorking, MarketCfg(TRUE, 8, TRUE), 1500, 0, 0, 0)
        EXCEPT !.addr = addr, !.underlying = Addr(addr.id + 1000, "lower")]

\* The contract a pool handle bound to addr reads.
PoolAt(addr) == [Pool(1, 18, 18, Pow10Qty(10), Pow10Qty(18)) EXCEPT !.addr = addr]

\* chain.py lines 53-59: the handles of the addresses that are addresses, in
\* the order of the list; the others are left out.
BuildMarketContracts(addresses) ==
    LET valid(a) == BuildContract(a) # NoAddr
        contract(a) == MarketAt(BuildContract(a))
    IN  SeqMap(contract, SelectSeq(addresses, valid))

\* chain.py lines 61-67
BuildLiquidityMiningContracts(addresses) ==
    LET valid(a) == BuildContract(a) # NoAddr
        contract(a) == PoolAt(BuildContract(a))
    IN  SeqMap(contract, SelectSeq(addresses, valid))

\* chain.py lines 16-38: the reader built from a snapshot.
ChainReaderInit(addresses) ==
    Chain(TRUE,
          Reader(BuildContract(addresses.comptroller), BuildContract(addresses.priceOracle)),
          BuildMarketContracts(addresses.markets),
          NoLiquidity,
          BuildLiquidityMiningContracts(addresses.liquidityMining))

\* main.py lines 36-43: app.state.chain = ChainReader(), once per process;
\* an exception of load_addresses leaves the reader unset.
Startup(auto, cfg) ==
    /\ ~chain.started
    /\ resolved' = LoadAddressesCall(cache, auto, trace, cfg)
    /\ cache' = IF resolved'.status = "ok" THEN resolved'.value ELSE None
    /\ chain' = IF resolved'.status = "ok" THEN ChainReaderInit(resolved'.value[1]) ELSE chain
    /\ UNCHANGED <<trace, extracted, resp, called>>

\* ------------------------------------------------------------------------
\* get_contract_addresses (lines 604-658)
\* ------------------------------------------------------------------------
\* _checksum(x) or x
ChecksumOrAsIs(address) == IF Checksum(address) # NoAddr THEN Checksum(address) ELSE address

\* lines 606-617
ContractMarketDetail(mk) ==
    LET underlying == CallFn(mk.addr, AddrRead(mk.underlying), <<>>, NoAddr).value
        underlying_checksum == ChecksumOrAsIs(underlying)
        underlying_erc20 == GetErc20(underlying_checksum)
    IN  [market |-> mk.addr,
         underlying |-> underlying_checksum,
         symbol |-> IF underlying_erc20 # NoAddr
                    THEN CallFn(underlying_erc20, Method(TRUE, FALSE, mk.symbol), <<>>, "").value
                    ELSE "",
         decimals |-> IF underlying_erc20 # NoAddr
                      THEN CallFn(underlying_erc20, IntRead(mk.decimals), <<>>, NoVal).value
                      ELSE NoVal]

\* lines 621-639
ContractPoolDetail(pl) ==
    LET staking_checksum == ChecksumOrAsIs(CallFn(pl.addr, AddrRead(pl.stakingToken), <<>>, NoAddr).value)
        rewards_checksum == ChecksumOrAsIs(CallFn(pl.addr, AddrRead(pl.rewardsToken), <<>>, NoAddr).value)
        staking_erc20 == GetErc20(staking_checksum)
        rewards_erc20 == GetErc20(rewards_checksum)
    IN  [mining |-> pl.addr,
         stakingToken |-> staking_checksum,
         stakingSymbol |-> IF staking_erc20 # NoAddr
                           THEN CallFn(staking_erc20, Method(TRUE, FALSE, pl.stakingSymbol), <<>>, "").value
                           ELSE "",
         rewardsToken |-> rewards_checksum,
         rewardsSymbol |-> IF rewards_erc20 # NoAddr
                           THEN CallFn(rewards_erc20, Method(TRUE, FALSE, pl.rewardsSymbol), <<>>, "").value
                           ELSE ""]

\* lines 641-648: one entry for every rewards token, keyed by its lower-cased
\* address, in the order of the pools.
RECURSIVE RewardTokensFrom(_, _, _)
RewardTokensFrom(pools, keys, reward_tokens) ==
    IF pools = <<>> THEN reward_tokens
    ELSE LET pl == Head(pools)
             rewards_checksum == ContractPoolDetail(pl).rewardsToken
             rewards_erc20 == GetErc20(rewards_checksum)
             entry == [token |-> rewards_checksum,
                       symbol |-> ContractPoolDetail(pl).rewardsSymbol,
                       decimals |-> IF rewards_erc20 # NoAddr
                                    THEN CallFn(rewards_erc20, IntRead(pl.rewardsDecimals), <<>>, NoVal).value
                                    ELSE NoVal]
         IN  IF rewards_checksum = NoAddr \/ Lower(rewards_checksum) \in keys
             THEN RewardTokensFrom(Tail(pools), keys, reward_tokens)
             ELSE RewardTokensFrom(Tail(pools), keys \cup {Lower(rewards_checksum)},
                                   Append(reward_tokens, entry))

\* lines 604-658.  The chain id is that of the node the reader talks to.
GetContractAddressesOf(c) ==
    LET market(d) == d.market
        mining(d) == d.mining
        markets == SeqMap(ContractMarketDetail, c.markets)
        liquidity_mining == SeqMap(ContractPoolDetail, c.pools)
    IN  [chainId |-> "chain_id",
         comptroller |-> c.reader.comptroller,
         priceOracle |-> c.reader.price_oracle,
         markets |-> SeqMap(market, markets),
         liquidityMining |-> SeqMap(mining, liquidity_mining),
         marketDetails |-> markets,
         liquidityMiningDetails |-> liquidity_mining,
         rewardTokens |-> RewardTokensFrom(c.pools, {}, <<>>)]

\* app.state.chain.get_contract_addresses(), asked with or without the wish
\* to refresh: the method has no parameter (line 604) that could take the
\* wish, and reads the handles as they are.
GetContractAddresses(refresh) ==
    /\ chain.started
    /\ resp' = Response("get_contract_addresses", NoAddr,
                        Answer(Returned(GetContractAddressesOf(chain)), {"underlying", "symbol", "decimals"}),
                        FALSE)
    /\ UNCHANGED <<trace, extracted, cache, resolved, chain, called>>

\* ------------------------------------------------------------------------
\* DecimalMath (lines 99-167), on orders of magnitude
\* ------------------------------------------------------------------------
\* getcontext().prec (line 17): the number of significant digits a Decimal
\* operation of the reader keeps.
DecimalPrec == 50
\* WAD (line 9) is 10^WadExp and PRICE_DECIMALS (line 8) is 10^PriceExp.
WadExp == 18
PriceExp == 8
\* An unsigned integer of 256 bits is below 10^(MaxUintExp + 1), and the
\* decimals() of a token is an unsigned integer of 8 bits.
MaxUintExp == 77
MaxDecimals == 255

\* A Decimal: None, 0, or m * 10^adj with 1 <= m < 10. The raw integers
\* of the model are powers of ten (Qty), so that m = 1 throughout.
Dec(kind, adj) == [kind |-> kind, adj |-> adj]
NoDec == Dec("none", 0)
ZeroDec == Dec("zero", 0)

\* lines 99-102: Decimal(value) of an integer is exact.
ToDecimal(value) ==
    IF value = NoQty THEN NoDec
    ELSE IF value = ZeroQty THEN ZeroDec
    ELSE Dec("num", value.exp)

\* Decimal / Decimal(10^by): a division rounds to DecimalPrec digits and
\* raises nothing (Inexact and Rounded are not trapped).
DecDiv(value, by) ==
    IF value.kind = "num" THEN Dec("num", value.adj - by) ELSE value

\* lines 135-138
RateToDec(rate) == DecDiv(ToDecimal(rate), WadExp)

\* lines 130-133
PriceToDec(price) == DecDiv(ToDecimal(price), PriceExp)

\* lines 140-143: value * Decimal(100)
DecToPct(value) == DecDiv(value, -2)

\* amount / 10^decimals divided by the price instead of multiplied by it.
AmountToUsdDecDivided(amount, decimals, price) ==
    IF amount = NoQty \/ decimals = NoVal \/ price = NoQty THEN NoDec
    ELSE IF amount = ZeroQty \/ price = ZeroQty THEN ZeroDec
    ELSE Dec("num", (amount.exp - decimals) - (price.exp - PriceExp))

\* lines 114-119: amount / 10^decimals * (price / 10^8); None when an input
\* is None. Both the quotient and the product are rounded to DecimalPrec
\* digits, which keeps the order of two values.
AmountToUsdDec(amount, decimals, price) ==
    IF amount = NoQty \/ decimals = NoVal \/ price = NoQty THEN NoDec
    ELSE IF amount = ZeroQty \/ price = ZeroQty THEN ZeroDec
    ELSE Dec("num", (amount.exp - decimals) + (price.exp - PriceExp))

\* Decimal.quantize(Decimal("0.0...01")) with `places` digits after the
\* point: the result has the exponent -places, and the operation signals
\* InvalidOperation (trapped: it raises) when the coefficient of the result
\* would be longer than the precision of the context.
Quantize(value, places) ==
    IF value.kind = "zero" THEN Returned(value)
    ELSE IF value.adj + 1 + places > DecimalPrec THEN Thrown("InvalidOperation")
    ELSE IF value.adj + places < 0 THEN Returned(ZeroDec)
    ELSE Returned(value)

\* float(Decimal): inf beyond the largest float, without raising. The
\* magnitudes of the model are above the smallest float.
FloatOf(value) ==
    IF value.kind = "zero" THEN ZeroFloat
    ELSE IF value.adj >= FloatOverflowExp + 1 THEN InfFloat
    ELSE Float("finite", value.adj)

\* lines 145-150: places = NoVal is quantize=None.
ToFloat(value, places) ==
    IF value = NoDec THEN Returned(NoFloat)
    ELSE LET quantized == IF places = NoVal THEN Returned(value) ELSE Quantize(value, places)
         IN IF quantized.raised THEN quantized ELSE Returned(FloatOf(quantized.value))

\* lines 152-155
AmountToTokenFloat(amount, decimals) ==
    IF amount = NoQty \/ decimals = NoVal THEN Returned(NoFloat)
    ELSE ToFloat(DecDiv(ToDecimal(amount), decimals), NoVal)

\* lines 157-160
WadToFloatOf(value, places) ==
    IF value = NoQty THEN Returned(NoFloat)
    ELSE ToFloat(DecDiv(ToDecimal(value), WadExp), places)

\* lines 109-112: str(value.quantize(Decimal("0.000001")))
FormatUsdDec(value) ==
    IF value = NoDec THEN Returned(NoDec) ELSE Quantize(value, 6)

\* One call of a DecimalMath helper: fn names it, value is its integer (or,
\* for _decimal_to_pct, _to_float and _format_usd, the Decimal that
\* _to_decimal makes of the integer).
DecimalMath(fn, value, decimals, price, places) ==
    CASE fn = "_to_decimal" -> Returned(ToDecimal(value))
      [] fn = "_rate_to_decimal" -> Returned(RateToDec(value))
      [] fn = "_price_to_usd" -> Returned(PriceToDec(value))
      [] fn = "_decimal_to_pct" -> Returned(DecToPct(ToDecimal(value)))
      [] fn = "_amount_to_usd" -> Returned(AmountToUsdDec(value, decimals, price))
      [] fn = "_amount_to_token" -> AmountToTokenFloat(value, decimals)
      [] fn = "_wad_to_float" -> WadToFloatOf(value, places)
      [] fn = "_to_float" -> ToFloat(ToDecimal(value), places)
      [] fn = "_format_usd" -> FormatUsdDec(ToDecimal(value))

NoDecimalCall ==
    [made |-> FALSE, fn |-> "-", value |-> NoQty, decimals |-> NoVal, price |-> NoQty,
     places |-> NoVal, result |-> Returned(NoDec)]

DecimalMathCall(fn, value, decimals, price, places) ==
    /\ called' = [made |-> TRUE, fn |-> fn, value |-> value, decimals |-> decimals,
                  price |-> price, places |-> places,
                  result |-> DecimalMath(fn, value, decimals, price, places)]
    /\ UNCHANGED <<trace, extracted, cache, resolved, chain, resp>>

\* ========================================================================
\* Specifications
\* ========================================================================
InitResolver ==
    /\ trace \in Traces
    /\ extracted = NotCalled
    /\ cache = None
    /\ resolved = NotCalled
    /\ chain = ChainNotStarted
    /\ resp = NoRequest
    /\ called = NoCall

NextResolver ==
    \/ \E auto \in BOOLEAN, cfg \in ConfigFiles : LoadAddresses(auto, cfg)
    \/ LoadAddressesCached
    \/ ExtractFromRunJson

SpecResolver == InitResolver /\ [][NextResolver]_vars

\* ---- the states of the markets the market views are checked on ----
\* Every market has supply, borrows and cash; its reserves or its reserve
\* factor may be unreadable, its rate model may work, have the per-second
\* methods alone or fail on every call, and the comptroller and the oracle
\* may fail on it.
MarketsEnv(k) ==
    { Market(k, TokenDecimals, 3, 2, r[1], 4, r[2],
             RateModelAddr(k), rateModel, cfg, price, 0, 0, 0) :
        r \in {<<1, 1>>, <<NoVal, 1>>, <<1, NoVal>>},
        rateModel \in {RateModelWorking, RateModelPerSecondOnly, RateModelFailing},
        cfg \in {CfgFailing, MarketCfg(TRUE, 8, TRUE)},
        price \in {NoVal, 1500} }

InitMarkets ==
    /\ trace = TraceAbsent
    /\ extracted = NotCalled
    /\ cache = None
    /\ resolved = NotCalled
    /\ chain \in {ChainNotStarted}
                \cup { Chain(TRUE, ReaderBound, ms, NoLiquidity, <<>>) :
                        ms \in MarketLists(NumMarkets, [k \in 1..NumMarkets |-> MarketsEnv(k)]) }
    /\ resp = NoRequest
    /\ called = NoCall

NextMarkets ==
    \/ HttpGetMarkets
    \/ HttpGetMarketsSummary

SpecMarkets == InitMarkets /\ [][NextMarkets]_vars

\* ---- the positions of one account ----
\* The account the requests are about, in a valid spelling.
TheAccount == Addr(7, "lower")

\* In every market the account has supplied, borrowed or both; the oracle
\* has a price for the asset or none, the comptroller answers with the
\* collateral factor 0.8 or 0 or fails; getCash fails or not, and the rate
\* model has the per-year methods.
AccountEnv(k) ==
    { Market(k, TokenDecimals, 3, 2, 1, cash, 1,
             RateModelAddr(k), RateModelWorking, v[1], v[2], p[1], p[2], 5) :
        p \in {<<2, 0>>, <<0, 1>>, <<2, 1>>},
        v \in {<<MarketCfg(TRUE, 8, TRUE), NoVal>>, <<CfgFailing, 1500>>,
               <<MarketCfg(TRUE, 0, TRUE), 1500>>, <<MarketCfg(TRUE, 8, TRUE), 1500>>},
        cash \in {4, NoVal} }

InitAccount ==
    /\ trace = TraceAbsent
    /\ extracted = NotCalled
    /\ cache = None
    /\ resolved = NotCalled
    /\ chain \in {ChainNotStarted}
                \cup { Chain(TRUE, ReaderBound, ms, liq, <<>>) :
                        ms \in MarketLists(NumMarkets, [k \in 1..NumMarkets |-> AccountEnv(k)]),
                        liq \in {NoLiquidity, Liquidity(TRUE, 500, 0)} }
    /\ resp = NoRequest
    /\ called = NoCall

NextAccount ==
    \/ HttpGetAccount(TheAccount, NoAddr)
    \/ HttpGetAccountOverview(TheAccount)
    \/ HttpGetAccountWallet(TheAccount, <<>>)
    \/ HttpGetMarkets
    \/ HttpGetMarketsSummary

SpecAccount == InitAccount /\ [][NextAccount]_vars

\* ---- the requests that name an account, in every spelling ----
RequestAccounts == { Addr(7, cs) : cs \in AddrSpellings }
\* ?market=: none, a market of the reader in lower case and in mixed case
\* with a wrong checksum, an address where no market lives, a string that
\* is no address.
RequestMarkets ==
    {NoAddr, Lower(MarketAddr(1)), [MarketAddr(1) EXCEPT !.cs = "badsum"], Addr(99, "lower"), Addr(99, "nothex")}
\* ?assets=: none, a symbol, the address of an asset.
RequestAssets == {<<>>, <<AssetSymbol("sym")>>, <<AssetAddress(AssetAddr(1))>>}

RequestsMarketEnv(k) ==
    { Market(k, TokenDecimals, 3, 2, 1, 4, 1,
             RateModelAddr(k), rateModel, MarketCfg(TRUE, 8, TRUE), 1500, 2, 1, 5) :
        rateModel \in {RateModelWorking, RateModelFailing} }

RequestsPoolEnv(k) ==
    { Pool(k, 18, 18, Pow10Qty(10), totalStaked) : totalStaked \in {ZeroQty, Pow10Qty(18)} }

InitRequests ==
    /\ trace = TraceAbsent
    /\ extracted = NotCalled
    /\ cache = None
    /\ resolved = NotCalled
    /\ chain \in {ChainNotStarted}
                \cup { Chain(TRUE, ReaderBound, ms, Liquidity(TRUE, 500, 0), ps) :
                        ms \in MarketLists(NumMarkets, [k \in 1..NumMarkets |-> RequestsMarketEnv(k)]),
                        ps \in PoolLists(NumPools, [k \in 1..NumPools |-> RequestsPoolEnv(k)]) }
    /\ resp = NoRequest
    /\ called = NoCall

NextRequests ==
    \/ \E address \in RequestAccounts \ {Addr(7, "empty")}, market \in RequestMarkets :
            HttpGetAccount(address, market)
    \/ \E account \in RequestAccounts : HttpGetAccountOverview(account)
    \/ \E account \in RequestAccounts, assets \in RequestAssets :
            HttpGetAccountWallet(account, assets)
    \/ \E address \in RequestAccounts \ {Addr(7, "empty")} :
            HttpGetLiquidityMiningAccount(address)

SpecRequests == InitRequests /\ [][NextRequests]_vars

\* ---- the liquidity-mining pools ----
\* The decimals of the two tokens are 18, or those of the rewards token
\* cannot be read, or they are as far apart as a uint8 allows; the reward
\* rate and the stake go up to the 10^77 a uint256 holds.
MiningPoolEnv(k) ==
    { Pool(k, d[1], d[2], rewardRate, totalStaked) :
        d \in {<<18, 18>>, <<18, NoVal>>, <<255, 0>>},
        rewardRate \in {NoQty, Pow10Qty(10), Pow10Qty(40), Pow10Qty(77)},
        totalStaked \in {NoQty, ZeroQty, Pow10Qty(0), Pow10Qty(18)} }

InitMining ==
    /\ trace = TraceAbsent
    /\ extracted = NotCalled
    /\ cache = None
    /\ resolved = NotCalled
    /\ chain \in {ChainNotStarted}
                \cup { Chain(TRUE, ReaderBound, <<>>, NoLiquidity, ps) :
                        ps \in PoolLists(NumPools, [k \in 1..NumPools |-> MiningPoolEnv(k)]) }
    /\ resp = NoRequest
    /\ called = NoCall

NextMining ==
    \/ HttpGetLiquidityMining
    \/ HttpGetLiquidityMiningAccount(TheAccount)

SpecMining == InitMining /\ [][NextMining]_vars

\* ---- the safe call, on every handle, method and argument list ----
\* A handle is None or bound; a method is in the ABI or not, and its call
\* fails or returns 1 or 2; an argument is an integer or None; the default
\* is None or 0.
CallHandles == {NoAddr, BuildContract(Addr(1, "lower"))}
CallMethods == { Method(e, f, v) : e \in BOOLEAN, f \in BOOLEAN, v \in {1, 2} }
CallArgs == {<<>>} \cup { <<a>> : a \in {NoVal, 0, 1} }
                  \cup { <<a, b>> : a \in {NoVal, 0, 1}, b \in {NoVal, 0, 1} }
CallDefaults == {NoVal, 0}

InitSafeCall ==
    /\ trace = TraceAbsent
    /\ extracted = NotCalled
    /\ cache = None
    /\ resolved = NotCalled
    /\ chain = ChainNotStarted
    /\ resp = NoRequest
    /\ called = NoCall

NextSafeCall ==
    \E contract \in CallHandles, fn \in CallMethods, args \in CallArgs, default \in CallDefaults :
        CallFnOnce(contract, fn, args, default)

SpecSafeCall == InitSafeCall /\ [][NextSafeCall]_vars

\* ---- the process over redeployments ----
\* The number of deployments the trace file goes through.
MaxDeployments == 2

\* The trace of the g-th deployment with n markets and p pools: a
\* Comptroller behind a proxy, a price oracle, the markets and the pools, at
\* accounts of their own.
Deployment(g, n, p) ==
    TraceOf(<<Tx("CREATE", COMPTROLLER_ABI_NAME, Addr(100 * g + 1, "lower"), NoArg),
              Tx("CREATE", PROXY_NAME, Addr(100 * g + 2, "checksum"), Addr(100 * g + 1, "lower")),
              Tx("CREATE", "PriceOracle", Addr(100 * g + 3, "lower"), NoArg)>>
            \o [k \in 1..n |-> Tx("CREATE", MARKET_ABI_NAME, Addr(100 * g + 10 + k, "lower"), NoArg)]
            \o [k \in 1..p |-> Tx("CREATE", LIQUIDITY_MINING_ABI_NAME, Addr(100 * g + 40 + k, "checksum"), NoArg)])

Deployments ==
    {TraceAbsent, TraceUnreadable}
    \cup { Deployment(g, n, p) : g \in 1..MaxDeployments, n \in {1, NumMarkets}, p \in {0, NumPools} }

\* The static file is absent or names a comptroller and an oracle.
ProcessConfigs == {CfgAbsent, CfgFile("dict", CfgComptroller, CfgOracle)}

InitProcess ==
    /\ trace \in Deployments
    /\ extracted = NotCalled
    /\ cache = None
    /\ resolved = NotCalled
    /\ chain = ChainNotStarted
    /\ resp = NoRequest
    /\ called = NoCall

NextProcess ==
    \/ \E auto \in BOOLEAN, cfg \in ProcessConfigs : Startup(auto, cfg)
    \/ \E auto \in BOOLEAN, cfg \in ProcessConfigs : LoadAddresses(auto, cfg)
    \/ LoadAddressesCached
    \/ CacheClear
    \/ \E file \in Deployments : Redeploy(file)
    \/ \E refresh \in BOOLEAN : GetContractAddresses(refresh)

SpecProcess == InitProcess /\ [][NextProcess]_vars

\* ---- the wallet over the symbols of the assets ----
\* The asset of a market answers symbol() with "SYM" (as the asset of
\* another market may) or "TKN", or the call fails; the oracle has a price
\* for it or none, and the account holds some of it or none.
WalletEnv(k) ==
    { [Market(k, TokenDecimals, 3, 2, 1, 4, 1, RateModelAddr(k), RateModelWorking, MarketCfg(TRUE, 8, TRUE), price, 0, 0, walletBalance)
            EXCEPT !.symbol = symbol] :
        symbol \in {"SYM", "TKN", ""}, price \in {NoVal, 1500}, walletBalance \in {0, 5} }

\* ?assets=: none, a symbol in lower or upper case, a symbol of no market,
\* the address of an asset, a string that is neither, a symbol and an
\* address.
WalletFilters ==
    {<<>>, <<AssetSymbol("sym")>>, <<AssetSymbol("TKN")>>, <<AssetSymbol("xyz")>>,
     <<AssetAddress(AssetAddr(1))>>, <<AssetAddress(Addr(21, "nothex"))>>,
     <<AssetSymbol("tkn"), AssetAddress(Lower(AssetAddr(2)))>>}

InitWallet ==
    /\ trace = TraceAbsent
    /\ extracted = NotCalled
    /\ cache = None
    /\ resolved = NotCalled
    /\ chain \in { Chain(TRUE, ReaderBound, ms, NoLiquidity, <<>>) :
                    ms \in MarketLists(NumMarkets, [k \in 1..NumMarkets |-> WalletEnv(k)]) }
    /\ resp = NoRequest
    /\ called = NoCall

NextWallet == \E assets \in WalletFilters : HttpGetAccountWallet(TheAccount, assets)

SpecWallet == InitWallet /\ [][NextWallet]_vars

\* ---- the overview over weights and rates ----
\* A second rate model, with other per-year rates than the first.
RateModelOther == RateModel(TRUE, 4, 3, 1, 1, 3)

\* In a market the account has nothing, a supply and a borrow, a supply
\* alone or a borrow alone; the oracle has a price for the asset or none;
\* the rate model is one of two with different rates or fails on every call.
OverviewEnv(k) ==
    { Market(k, TokenDecimals, 3, 2, 1, 4, 1, RateModelAddr(k), rateModel, MarketCfg(TRUE, 8, TRUE), price, p[1], p[2], 5) :
        p \in {<<0, 0>>, <<2, 1>>, <<4, 0>>, <<0, 3>>},
        price \in {NoVal, 1500},
        rateModel \in {RateModelWorking, RateModelOther, RateModelFailing} }

InitOverview ==
    /\ trace = TraceAbsent
    /\ extracted = NotCalled
    /\ cache = None
    /\ resolved = NotCalled
    /\ chain \in { Chain(TRUE, ReaderBound, ms, Liquidity(TRUE, 500, 0), <<>>) :
                    ms \in {<<>>} \cup MarketLists(NumMarkets, [k \in 1..NumMarkets |-> OverviewEnv(k)]) }
    /\ resp = NoRequest
    /\ called = NoCall

NextOverview ==
    \/ HttpGetAccountOverview(TheAccount)
    \/ HttpGetAccount(TheAccount, NoAddr)

SpecOverview == InitOverview /\ [][NextOverview]_vars

\* ---- the DecimalMath helpers, each called on its own ----
\* The integers a contract may return: None (the call failed), 0 and every
\* third order of magnitude up to 256 bits; the decimals a token may report; the
\* quantize arguments of the source (None, "0.0001", "0.000001",
\* "0.0000000000000001", "0.000000000000000001").
DecimalValues == {NoQty, ZeroQty} \cup { Pow10Qty(e) : e \in { x \in 0..MaxUintExp : x % 3 = 2 } }
DecimalPrices == {NoQty, ZeroQty, Pow10Qty(0), Pow10Qty(PriceExp), Pow10Qty(MaxUintExp)}
DecimalDecimals == {NoVal, 0, 6, 18, MaxDecimals}
DecimalPlaces == {NoVal, 4, 6, 16, 18}

InitDecimal ==
    /\ trace = TraceAbsent
    /\ extracted = NotCalled
    /\ cache = None
    /\ resolved = NotCalled
    /\ chain = ChainNotStarted
    /\ resp = NoRequest
    /\ called = NoDecimalCall

NextDecimal ==
    \/ \E fn \in {"_to_decimal", "_rate_to_decimal", "_price_to_usd", "_decimal_to_pct", "_format_usd"},
          value \in DecimalValues :
            DecimalMathCall(fn, value, NoVal, NoQty, NoVal)
    \/ \E value \in DecimalValues, decimals \in DecimalDecimals, price \in DecimalPrices :
            DecimalMathCall("_amount_to_usd", value, decimals, price, NoVal)
    \/ \E value \in DecimalValues, decimals \in DecimalDecimals :
            DecimalMathCall("_amount_to_token", value, decimals, NoQty, NoVal)
    \/ \E fn \in {"_wad_to_float", "_to_float"}, value \in DecimalValues, places \in DecimalPlaces :
            DecimalMathCall(fn, value, NoVal, NoQty, places)

SpecDecimal == InitDecimal /\ [][NextDecimal]_vars

\* ---- the markets the summary is checked on ----
\* Every market is readable, with a working rate model; the supply, the
\* borrows and the price vary, the price being unknown, 0.0000125 or
\* 0.000015 USD.
SummaryEnv(k) ==
    { Market(k, TokenDecimals, supply, borrows, 1, 4, 1,
             RateModelAddr(k), RateModelWorking, MarketCfg(TRUE, 8, TRUE), price, 0, 0, 0) :
        supply \in {3, 5}, borrows \in {1, 2, 3}, price \in {NoVal, 1250, 1500} }

InitSummary ==
    /\ trace = TraceAbsent
    /\ extracted = NotCalled
    /\ cache = None
    /\ resolved = NotCalled
    /\ chain \in { Chain(TRUE, ReaderBound, ms, NoLiquidity, <<>>) :
                    ms \in MarketLists(NumMarkets, [k \in 1..NumMarkets |-> SummaryEnv(k)]) }
    /\ resp = NoRequest
    /\ called = NoCall

NextSummary ==
    \/ HttpGetMarkets
    \/ HttpGetMarketsSummary

SpecSummary == InitSummary /\ [][NextSummary]_vars

\* ---- the traces the comptroller heuristic is checked on ----
\* The number of transactions of such a trace.
HeuristicTxs == 5

\* The i-th transaction: an implementation the trace does not name, a
\* Comptroller, or a proxy in front of another account of the trace.
HeuristicTxsAt(i) ==
    { Tx("CREATE", n, Addr(i, "lower"), NoArg) : n \in {NoName, COMPTROLLER_ABI_NAME} }
    \cup { Tx("CREATE", PROXY_NAME, Addr(i, "checksum"), Addr(j, "lower")) : j \in (1..HeuristicTxs) \ {i} }

RECURSIVE HeuristicLists(_)
HeuristicLists(n) ==
    IF n = 0 THEN {<<>>}
    ELSE { Append(t, tx) : t \in HeuristicLists(n - 1), tx \in HeuristicTxsAt(n) }

InitHeuristic ==
    /\ trace \in { TraceOf(t) : t \in HeuristicLists(HeuristicTxs) }
    /\ extracted = NotCalled
    /\ cache = None
    /\ resolved = NotCalled
    /\ chain = ChainNotStarted
    /\ resp = NoRequest
    /\ called = NoCall

NextHeuristic == ExtractFromRunJson

SpecHeuristic == InitHeuristic /\ [][NextHeuristic]_vars

\* ---- the selection among candidate traces ----
\* The number of markets of a trace with many optional roles, and the
\* length of the longest candidate list.
ManyMarkets == 101
MaxCandidates == 2

\* The trace of a deployment g that has a Comptroller and n markets and no
\* price oracle.
PartialDeployment(g, n) ==
    TraceOf(<<Tx("CREATE", COMPTROLLER_ABI_NAME, Addr(100 * g + 1, "lower"), NoArg)>>
            \o [k \in 1..n |-> Tx("CREATE", MARKET_ABI_NAME, Addr(1000 * g + k, "lower"), NoArg)])

\* A candidate: unreadable, one of two complete deployments with no market
\* or one, or a third deployment without oracle with one market or many.
CandidateFiles ==
    {TraceUnreadable}
    \cup { Deployment(g, n, 0) : g \in {1, 2}, n \in {0, 1} }
    \cup { PartialDeployment(3, n) : n \in {1, ManyMarkets} }

RECURSIVE CandidateLists(_)
CandidateLists(n) ==
    IF n = 0 THEN {<<>>}
    ELSE CandidateLists(n - 1)
         \cup { Append(t, file) : t \in { c \in CandidateLists(n - 1) : Len(c) = n - 1 }, file \in CandidateFiles }

InitSelection ==
    /\ trace \in CandidateLists(MaxCandidates)
    /\ extracted = NotCalled
    /\ cache = None
    /\ resolved = NotCalled
    /\ chain = ChainNotStarted
    /\ resp = NoRequest
    /\ called = NoSelection

NextSelection ==
    \/ \E auto \in BOOLEAN, cfg \in ProcessConfigs : LoadAddressesAmong(auto, cfg)
    \/ LoadAddressesCached

SpecSelection == InitSelection /\ [][NextSelection]_vars

\* ---- the market the utilization and the rates are checked on ----
\* Cash, borrows and reserves are unreadable, zero or positive, the
\* reserves possibly above cash plus borrows; the rate model answers its
\* per-year methods, or has the per-second methods alone, or fails on the
\* per-year methods with a constant of its own or without, or fails on
\* every call.
RatesEnv ==
    { Market(1, TokenDecimals, 3, borrows, reserves, cash, 1,
             RateModelAddr(1), rateModel, MarketCfg(TRUE, 8, TRUE), 1500, 0, 0, 0) :
        cash \in {NoVal, 0, 4}, borrows \in {NoVal, 0, 2}, reserves \in {NoVal, 1, 7},
        rateModel \in {RateModelWorking, RateModelPerSecondOnly, RateModelFailing,
                       RateModel(TRUE, NoVal, NoVal, 1, 1, 3),
                       RateModel(TRUE, NoVal, NoVal, 1, 1, NoVal)} }

InitRates ==
    /\ trace = TraceAbsent
    /\ extracted = NotCalled
    /\ cache = None
    /\ resolved = NotCalled
    /\ chain \in { Chain(TRUE, ReaderBound, <<mk>>, NoLiquidity, <<>>) : mk \in RatesEnv }
    /\ resp = NoRequest
    /\ called = NoCall

NextRates == HttpGetMarkets

SpecRates == InitRates /\ [][NextRates]_vars

\* ------------------------------------------------------------------------
\* Claims about the resolver
\* ------------------------------------------------------------------------

\* The proxies of the trace whose first constructor argument names, in any
\* spelling, an implementation deployed as "Comptroller".
IsComptrollerImpl(tx) == IsCreate(tx) /\ tx.contractName = "Comptroller"

IsProxyOf(tx, impl) ==
    /\ IsCreate(tx)
    /\ tx.contractName = "ERC1967Proxy"
    /\ tx.arg0 # NoArg
    /\ tx.arg0.id = impl.contractAddress.id

ComptrollerProxies ==
    { trace.txs[j].contractAddress : j \in
        { k \in DOMAIN trace.txs :
            \E i \in DOMAIN trace.txs :
                IsComptrollerImpl(trace.txs[i]) /\ IsProxyOf(trace.txs[k], trace.txs[i]) } }

\* C1: whenever the trace holds a CREATE named "Comptroller" at A and a proxy
\* CREATE whose first constructor argument is A, in any letter case, the
\* comptroller the resolver returns is the address of a proxy in front of a
\* Comptroller implementation (the proxy's, when there is one such proxy) and
\* is never A.
C1_ProxyResolution ==
    (extracted.status = "ok" /\ trace.kind = "list") =>
        \A i, j \in DOMAIN trace.txs :
            (IsComptrollerImpl(trace.txs[i]) /\ IsProxyOf(trace.txs[j], trace.txs[i])) =>
                /\ extracted.value # None
                /\ extracted.value[1].comptroller \in ComptrollerProxies
                /\ extracted.value[1].comptroller.id # trace.txs[i].contractAddress.id
                /\ (Cardinality(ComptrollerProxies) = 1 =>
                        extracted.value[1].comptroller = trace.txs[j].contractAddress)

\* C1, witness: a Comptroller implementation written in checksum case, one
\* proxy whose argument spells it in lower case, and the proxy resolved.
C1_Witness ==
    /\ extracted.status = "ok"
    /\ trace.kind = "list"
    /\ \E i, j \in DOMAIN trace.txs :
            /\ IsComptrollerImpl(trace.txs[i])
            /\ IsProxyOf(trace.txs[j], trace.txs[i])
            /\ trace.txs[i].contractAddress.cs = "checksum"
            /\ trace.txs[j].arg0.cs = "lower"
            /\ extracted.value # None
            /\ extracted.value[1].comptroller = trace.txs[j].contractAddress

\* C2: every snapshot load_addresses returns, trace-derived or static, has a
\* comptroller and a price oracle; it raises otherwise.
C2_MandatoryRolesNeverEmpty ==
    resolved.status = "ok" =>
        /\ resolved.value[1].comptroller # NoAddr
        /\ resolved.value[1].priceOracle # NoAddr

\* ------------------------------------------------------------------------
\* Claims about the market views
\* ------------------------------------------------------------------------
MarketIds == DOMAIN chain.markets

\* Every call to the rate model of the market fails.
RateModelFailsEveryCall(mk) ==
    /\ mk.rateModel.borrowYear = NoVal
    /\ mk.rateModel.supplyYear = NoVal
    /\ mk.rateModel.borrowRate = NoVal
    /\ mk.rateModel.supplyRate = NoVal
    /\ mk.rateModel.seconds = NoVal

\* The chain with the rate model of the market i working.
WithRateModelWorking(i) ==
    [chain EXCEPT !.markets[i].rateModel = RateModelWorking]

\* The chain without the market i: the remaining markets.
WithoutMarket(i) ==
    [chain EXCEPT !.markets =
        [k \in 1..(Len(chain.markets) - 1) |->
            IF k < i THEN chain.markets[k] ELSE chain.markets[k + 1]]]

AprFieldsNull(view) ==
    /\ view.borrowRatePerYear = NoVal
    /\ view.borrowAprPct = NoVal
    /\ view.supplyRatePerYear = NoVal
    /\ view.supplyAprPct = NoVal

\* C5: when every call to the rate model of one market fails, get_markets
\* reports that market's four APR fields as null and every other market's
\* view as it is when that rate model works, and get_markets_summary returns
\* the sums over the remaining markets' figures.
C5_RateModelFailureIsLocal ==
    \A i \in MarketIds :
        RateModelFailsEveryCall(chain.markets[i]) =>
            /\ (resp.op = "get_markets" =>
                    /\ resp.status = 200
                    /\ AprFieldsNull(resp.body[i])
                    /\ \A j \in MarketIds \ {i} :
                            resp.body[j] = GetMarketsOf(WithRateModelWorking(i)).value[j])
            /\ (resp.op = "get_markets_summary" =>
                    /\ resp.status = 200
                    /\ resp.body = GetMarketsSummaryOf(WithoutMarket(i)).value)

\* C6: in every market view, a numeric field that depends on a read that
\* failed is null: totalReserves and utilization when totalReserves()
\* fails, the supply APR when reserveFactorMantissa() fails, the USD figures
\* and the price when the oracle fails, the collateral factor when the
\* comptroller fails.
C6_UnknownIsNeverZero ==
    (resp.op = "get_markets" /\ resp.status = 200) =>
        \A i \in MarketIds :
            LET mk == chain.markets[i]
                view == resp.body[i]
            IN  /\ mk.totalReserves = NoVal =>
                        (view.totalReserves = NoVal /\ view.utilization = NoRatio)
                /\ mk.reserveFactor = NoVal =>
                        (view.supplyRatePerYear = NoVal /\ view.supplyAprPct = NoVal)
                /\ mk.price = NoVal =>
                        (view.priceUsd = NoVal /\ view.totalSupplyUsd = NoVal
                         /\ view.totalBorrowsUsd = NoVal)
                /\ ~mk.cfg.ok => view.collateralFactor = NoVal

\* The figures get_markets_summary needs of a market.
Complete(view) ==
    /\ view.totalSupplyUsd # NoVal
    /\ view.totalBorrowsUsd # NoVal
    /\ view.collateralFactor # NoVal
    /\ view.supplyRatePerYear # NoVal

CompleteMarket(mk) == Complete(MarketView(chain.reader, mk).value)

\* C7: a market with a required figure missing contributes to none of the
\* four sums: the summary is the summary of the complete markets.
C7_IncompleteMarketsSkipped ==
    (resp.op = "get_markets_summary" /\ resp.status = 200) =>
        resp.body = GetMarketsSummaryOf(
                        [chain EXCEPT !.markets = SelectSeq(chain.markets, CompleteMarket)]).value

\* ------------------------------------------------------------------------
\* Claims about the safe call
\* ------------------------------------------------------------------------

\* C3: _call_fn never raises: for every handle, method and argument list it
\* returns the call's value when the call succeeds and `default` on any
\* failure (no handle, no such method, arguments the ABI does not take, a
\* failing call).
C3_CallFnNeverRaises ==
    called.made =>
        /\ ~called.result.raised
        /\ called.result.value =
              IF /\ called.contract # NoAddr
                 /\ called.fn.exists
                 /\ ArgsEncodable(called.args)
                 /\ ~called.fn.fails
              THEN called.fn.value
              ELSE called.default

\* ------------------------------------------------------------------------
\* Claims about the account views
\* ------------------------------------------------------------------------
PartialResponseOps ==
    {"get_account", "get_account_overview", "get_markets", "get_markets_summary",
     "get_wallet_balances"}

\* C4: for a valid account and whatever reads fail, get_account,
\* get_account_overview, get_markets, get_markets_summary and
\* get_wallet_balances return a result: none of them raises.
C4_PartialResponsesNeverRaise ==
    (/\ resp.op \in PartialResponseOps
     /\ chain.started
     /\ (resp.arg = NoAddr \/ IsAddress(resp.arg))) =>
        resp.status = 200

\* The borrow of a position in USD, in units of 1 / (1000000 * TokenScale):
\* nothing when the balance or the price is missing.
BorrowUsd(pos) ==
    IF pos.borrowBalance = NoVal \/ pos.priceUsd = NoVal THEN 0
    ELSE pos.borrowBalance * pos.priceUsd

\* The collateral of a position in USD, in the same units.
CollateralUsd(pos) ==
    IF pos.supplyUnderlying = NoVal \/ pos.priceUsd = NoVal \/ pos.collateralFactor = NoVal THEN 0
    ELSE pos.supplyUnderlying * pos.priceUsd * pos.collateralFactor

RECURSIVE TotalOf(_, _, _)
TotalOf(positions, n, which) ==
    IF n = 0 THEN 0
    ELSE TotalOf(positions, n - 1, which)
         + (IF which = "borrow" THEN BorrowUsd(positions[n]) ELSE CollateralUsd(positions[n]))

TotalBorrowUsd == TotalOf(resp.body.positions, Len(resp.body.positions), "borrow")
TotalCollateralUsd == TotalOf(resp.body.positions, Len(resp.body.positions), "collateral")

AccountReturned == resp.op = "get_account" /\ resp.status = 200

\* C8, as the specification states it: the health factor of get_account is
\* null exactly when the total borrow USD is zero, and a positive finite
\* number otherwise.
C8_HealthFactorPositive ==
    AccountReturned =>
        /\ (resp.body.healthFactor = NoRatio) <=> (TotalBorrowUsd = 0)
        /\ TotalBorrowUsd > 0 =>
              (resp.body.healthFactor.num > 0 /\ resp.body.healthFactor.den > 0)

\* C8, as the code has it: the health factor of get_account is null exactly
\* when the total borrow USD is zero, and otherwise the finite quotient of
\* the collateral by the borrow, which is zero when no priced position has
\* both a supply and a nonzero collateral factor, and positive if one has.
C8_HealthFactorNonNegative ==
    AccountReturned =>
        /\ (resp.body.healthFactor = NoRatio) <=> (TotalBorrowUsd = 0)
        /\ TotalBorrowUsd > 0 =>
              /\ resp.body.healthFactor.den > 0
              /\ resp.body.healthFactor.num >= 0
              /\ resp.body.healthFactor.num * TotalBorrowUsd * WAD
                    = TotalCollateralUsd * resp.body.healthFactor.den

\* C8, witness: an account that borrows an asset with a price and whose
\* collateral counts for nothing: the health factor is 0.
C8_Witness ==
    /\ AccountReturned
    /\ TotalBorrowUsd > 0
    /\ TotalCollateralUsd = 0
    /\ resp.body.healthFactor # NoRatio
    /\ resp.body.healthFactor.num = 0

\* ------------------------------------------------------------------------
\* Claims about the requests that name an account
\* ------------------------------------------------------------------------
AccountOps ==
    {"get_account", "get_account_overview", "get_account_market", "get_wallet_balances",
     "get_liquidity_mining_account"}

\* C9: every operation that takes an account rejects an address that is not
\* checksumable with a ValueError before it calls any contract, and the
\* handler answers 400.
C9_InvalidAddressRejected ==
    (resp.op \in AccountOps /\ chain.started /\ ~IsAddress(resp.arg)) =>
        /\ resp.error = "ValueError"
        /\ resp.reads = {}
        /\ resp.status = 400

\* C9, witness: a wallet request for an address in a wrong mixed case, on a
\* reader that has markets to read, answered 400.
C9_Witness ==
    /\ resp.op = "get_wallet_balances"
    /\ chain.started
    /\ chain.markets # <<>>
    /\ resp.arg.cs = "badsum"
    /\ resp.status = 400
    /\ resp.reads = {}

\* ------------------------------------------------------------------------
\* Claims about the liquidity-mining views
\* ------------------------------------------------------------------------
MiningOps == {"get_liquidity_mining", "get_liquidity_mining_account"}

PoolApr(pl) ==
    MiningApr(pl.rewardRate, pl.totalStaked, pl.rewardsDecimals, pl.stakingDecimals)

\* The apr of the pool is a float that math.exp cannot take.
TooLargeToExponentiate(pl) ==
    PoolApr(pl).kind = "finite" /\ PoolApr(pl).exp >= ExpOverflowExp

PoolViews == IF resp.op = "get_liquidity_mining" THEN resp.body ELSE resp.body.positions

\* C10: for every pool whose apr is too large to exponentiate (rewardRate
\* 10^40 on a stake of 1 with 18 decimals on both sides, say),
\* get_liquidity_mining and get_liquidity_mining_account do not raise and
\* report the apr of the pool as it is and its apy as null.
C10_HugeAprKeptApyNull ==
    (resp.op \in MiningOps /\ chain.started) =>
        \A i \in DOMAIN chain.pools :
            TooLargeToExponentiate(chain.pools[i]) =>
                /\ resp.status = 200
                /\ PoolViews[i].apr = PoolApr(chain.pools[i])
                /\ PoolViews[i].apy = NoFloat

\* The apr of the pool overflows the float: float(Decimal) gives inf.
AprNotFinite(pl) == PoolApr(pl) = InfFloat

\* C11: for every pool whose apr cannot be computed as a finite number
\* (the quotient of rewards per year and stake is beyond the largest
\* float), get_liquidity_mining and get_liquidity_mining_account do not
\* raise and report both the apr and the apy of the pool as null, never
\* as an infinite value.
C11_InfiniteAprBothNull ==
    (resp.op \in MiningOps /\ chain.started) =>
        \A i \in DOMAIN chain.pools :
            AprNotFinite(chain.pools[i]) =>
                /\ resp.status = 200
                /\ PoolViews[i].apr = NoFloat
                /\ PoolViews[i].apy = NoFloat

\* ------------------------------------------------------------------------
\* Claims about the address cache and the refresh
\* ------------------------------------------------------------------------
\* What a resolution of the trace file as it is now returns, with
\* auto-discovery on and no static file.
FreshResolution == LoadAddressesBody(TRUE, trace, CfgAbsent)

\* C12: once load_addresses has returned a snapshot, every later call in
\* the process (the one ChainReader() makes at startup included) returns that
\* same snapshot from the cache, whatever the trace file and the static
\* file hold by then, and the cache keeps it, until a caller forces the
\* re-resolution by clearing the cache.
C12_CachedSnapshotKept ==
    [][cache # None =>
          \/ CacheClear
          \/ /\ cache' = cache
             /\ (resolved' # resolved => resolved' = Ok(cache, "cache"))
             /\ (chain' # chain => chain' = ChainReaderInit(cache[1]))]_vars

\* C12, witness: a call answered from the cache with a snapshot that is not
\* what the trace file of now resolves to.
C12_Witness ==
    /\ cache # None
    /\ resolved = Ok(cache, "cache")
    /\ chain.started
    /\ FreshResolution.status = "ok"
    /\ FreshResolution.value # cache

\* C13: a get-contract-addresses request with the refresh signal set, made
\* when the trace file resolves, leaves the cache holding the snapshot
\* resolved from the trace file of now and every handle (comptroller, price
\* oracle, markets, pools) bound to the addresses of that snapshot, and
\* answers from these handles.
C13_RefreshRebindsHandles ==
    [][(GetContractAddresses(TRUE) /\ FreshResolution.status = "ok") =>
          /\ cache' = FreshResolution.value
          /\ chain' = ChainReaderInit(FreshResolution.value[1])
          /\ resp'.body = GetContractAddressesOf(ChainReaderInit(FreshResolution.value[1]))]_vars

\* The fields of a snapshot that hold one address, and all its addresses.
SnapshotAddresses(snapshot) ==
    {snapshot.comptroller, snapshot.priceOracle, snapshot.governor, snapshot.protocolTimelock}
    \cup { snapshot.markets[i] : i \in DOMAIN snapshot.markets }
    \cup { snapshot.liquidityMining[i] : i \in DOMAIN snapshot.liquidityMining }

\* The string is a valid address written in its checksummed form.
ValidatedChecksummed(a) == IsAddress(a) /\ a.cs = "checksum"

\* C16: in every snapshot load_addresses returns, every non-empty field
\* (comptroller, priceOracle, each entry of markets and liquidityMining,
\* governor, timelock) is a valid address in checksummed form; a snapshot
\* with another non-empty field is not returned.
C16_SnapshotFieldsValidated ==
    resolved.status = "ok" =>
        \A a \in SnapshotAddresses(resolved.value[1]) :
            a # NoAddr => ValidatedChecksummed(a)

\* ------------------------------------------------------------------------
\* Claims about get_account_market
\* ------------------------------------------------------------------------
\* The two strings are hexadecimal spellings of the same account, which
\* differ in nothing but the case of their letters.
EqualIgnoringCase(a, b) ==
    /\ a.id = b.id
    /\ a.cs \in {"lower", "checksum", "badsum"}
    /\ b.cs \in {"lower", "checksum", "badsum"}

\* The pre-bound handles at the supplied address, in any letter case.
PreBound(market) ==
    { i \in DOMAIN chain.markets : EqualIgnoringCase(chain.markets[i].addr, market) }

\* A request for the position of a valid account in the supplied market.
AccountMarketRequest(address, market) ==
    /\ chain.started
    /\ IsAddress(address)
    /\ market # NoAddr
    /\ HttpGetAccount(address, market)

\* C17 as stated: get_account_market fails with the invalid-market error
\* exactly when the supplied market address is missing or is not a valid
\* address.
C17_FailsExactlyOnInvalidAddress ==
    [][\A address \in RequestAccounts, market \in RequestMarkets :
          AccountMarketRequest(address, market) =>
              (resp'.status = 400 <=> ~IsAddress(market))]_vars

\* C17, amended: get_account_market reads through the first pre-bound
\* handle whose address equals the supplied one ignoring letter case; with
\* no such handle it reads through a handle bound to the supplied address;
\* it fails with the invalid-market error exactly when no pre-bound handle
\* matches and the supplied address is not a valid address.
C17_MarketHandleResolution ==
    [][\A address \in RequestAccounts, market \in RequestMarkets :
          AccountMarketRequest(address, market) =>
              IF PreBound(market) # {}
              THEN /\ resp'.status = 200
                   /\ \E i \in PreBound(market) :
                        /\ \A j \in PreBound(market) : i <= j
                        /\ resp'.body.market = chain.markets[i].addr
                        /\ resp'.body.underlying = chain.markets[i].underlying
              ELSE IF IsAddress(market)
              THEN /\ resp'.status = 200
                   /\ resp'.body.market = Addr(market.id, "checksum")
              ELSE /\ resp'.status = 400
                   /\ resp'.error = "ValueError"]_vars

\* C17, witness: a position read through a pre-bound handle.
C17_Witness ==
    /\ resp.op = "get_account_market"
    /\ resp.status = 200
    /\ \E i \in DOMAIN chain.markets :
            /\ resp.body.market = chain.markets[i].addr
            /\ resp.body.underlying = chain.markets[i].underlying

\* The entry of get_account(account).positions for the market the answer of
\* get_account_market is about.
PositionInAccount(i) == GetAccountOf(chain, resp.arg).value.positions[i]

\* C18: for a valid account and a pre-bound market, the position
\* get_account_market returns has every field of the entry of that market
\* in get_account(account).positions, the supply and borrow APR fields
\* included, with the same value.
C18_AccountMarketIsProjection ==
    (resp.op = "get_account_market" /\ resp.status = 200) =>
        \A i \in DOMAIN chain.markets :
            (chain.markets[i].addr = resp.body.market /\ ~GetAccountOf(chain, resp.arg).raised) =>
                /\ DOMAIN PositionInAccount(i) \subseteq DOMAIN resp.body
                /\ \A f \in DOMAIN PositionInAccount(i) : resp.body[f] = PositionInAccount(i)[f]

\* ------------------------------------------------------------------------
\* Claims about get_wallet_balances
\* ------------------------------------------------------------------------
\* The entry of the filter is the symbol of the asset of the market,
\* ignoring letter case.
SymbolOfMarket(asset, mk) ==
    asset.text # "" /\ mk.symbol # "" /\ Upper(asset.text) = Upper(mk.symbol)

\* The underlying assets the balances of the answer are about.
WalletUnderlyings(balances) == { balances[n].underlying : n \in DOMAIN balances }

\* C19: without a filter the answer of get_wallet_balances has one entry
\* for the underlying asset of every resolved market, whether or not its
\* symbol can be read or is that of another asset too; with a filter, an
\* entry that is the symbol of a market's asset ignoring case yields the
\* balance of such an asset, and any other entry that is an address yields
\* the balance of the token at that address.
C19_WalletEntries ==
    [][\A assets \in WalletFilters :
          (chain.started /\ HttpGetAccountWallet(TheAccount, assets)) =>
              IF assets = <<>>
              THEN /\ WalletUnderlyings(resp'.body.balances)
                        = { chain.markets[i].underlying : i \in DOMAIN chain.markets }
                   /\ Len(resp'.body.balances) = Len(chain.markets)
              ELSE \A k \in DOMAIN assets :
                    IF \E i \in DOMAIN chain.markets : SymbolOfMarket(assets[k], chain.markets[i])
                    THEN \E i \in DOMAIN chain.markets :
                            /\ SymbolOfMarket(assets[k], chain.markets[i])
                            /\ chain.markets[i].underlying \in WalletUnderlyings(resp'.body.balances)
                    ELSE IsAddress(assets[k].addr) =>
                            assets[k].addr \in WalletUnderlyings(resp'.body.balances)]_vars

\* ------------------------------------------------------------------------
\* Claims about get_account_overview
\* ------------------------------------------------------------------------
OverviewReturned == resp.op = "get_account_overview" /\ resp.status = 200

\* The positions of the account the overview is derived from.
OverviewPositions == GetAccountOf(chain, resp.arg).value.positions

\* The supply of a position in USD, in units of 1 / (1000000 * TokenScale):
\* nothing when the balance or the price is missing.
SupplyUsd(pos) ==
    IF pos.supplyUnderlying = NoVal \/ pos.priceUsd = NoVal THEN 0
    ELSE pos.supplyUnderlying * pos.priceUsd

\* The weight of a position on a side, and its APR there in units of 1 / WAD.
WeightOf(pos, side) == IF side = "supply" THEN SupplyUsd(pos) ELSE BorrowUsd(pos)
AprOf(pos, side) == IF side = "supply" THEN pos.supplyRatePerYear ELSE pos.borrowRatePerYear

RECURSIVE WeightSum(_, _, _)
WeightSum(positions, n, side) ==
    IF n = 0 THEN 0 ELSE WeightSum(positions, n - 1, side) + WeightOf(positions[n], side)

RECURSIVE WeightedAprSum(_, _, _)
WeightedAprSum(positions, n, side) ==
    IF n = 0 THEN 0
    ELSE WeightedAprSum(positions, n - 1, side)
         + WeightOf(positions[n], side) * AprOf(positions[n], side)

\* Every position that weighs on the side has an APR there.
AprsKnown(positions, side) ==
    \A n \in DOMAIN positions :
        WeightOf(positions[n], side) > 0 => AprOf(positions[n], side) # NoVal

\* The net APR of a side is the weighted average of the positions' APRs,
\* and zero when nothing weighs.
NetAprIsWeightedAverage(net, positions, side) ==
    /\ net # NoRatio
    /\ net.den > 0
    /\ WeightSum(positions, Len(positions), side) = 0 => net = Ratio(0, 1)
    /\ (WeightSum(positions, Len(positions), side) > 0 /\ AprsKnown(positions, side)) =>
            net = Ratio(WeightedAprSum(positions, Len(positions), side),
                        WeightSum(positions, Len(positions), side) * WAD)

DecimalInputNull ==
    \/ called.value = NoQty
    \/ called.fn \in {"_amount_to_usd", "_amount_to_token"} /\ called.decimals = NoVal
    \/ called.fn = "_amount_to_usd" /\ called.price = NoQty

\* C21: every DecimalMath conversion is total: it returns None for a null
\* input and never raises for a non-null input, whatever the magnitude of
\* the integer (up to 256 bits), the decimals of the token and the output
\* quantization.
C21_ConversionsTotal ==
    called.made =>
        /\ ~called.result.raised
        /\ (DecimalInputNull => called.result.value \in {NoDec, NoFloat})

\* The order of two integers and of two Decimals of the model.
QtyLeq(a, b) == a = ZeroQty \/ (a.kind = "pow10" /\ b.kind = "pow10" /\ a.exp <= b.exp)
DecLeq(a, b) == a = ZeroDec \/ (a.kind = "num" /\ b.kind = "num" /\ a.adj <= b.adj)

\* The call that was made is _amount_to_usd(amount, decimals, price).
IsAmountToUsd(c) == c.made /\ c.fn = "_amount_to_usd"
AmountToUsdInputNull(c) == c.value = NoQty \/ c.decimals = NoVal \/ c.price = NoQty

\* C22: _amount_to_usd(amount, decimals, price) returns None if and only
\* if at least one of its three inputs is None, and of two calls with the
\* same decimals and non-null inputs the one with the amount and the price
\* at least as large returns a USD value at least as large.
C22_AmountToUsdNullAndMonotonic ==
    [][IsAmountToUsd(called') =>
          /\ called'.result.raised = FALSE
          /\ (called'.result.value = NoDec <=> AmountToUsdInputNull(called'))
          /\ (/\ IsAmountToUsd(called)
              /\ ~AmountToUsdInputNull(called)
              /\ ~AmountToUsdInputNull(called')
              /\ called.decimals = called'.decimals
              /\ QtyLeq(called.value, called'.value)
              /\ QtyLeq(called.price, called'.price))
             => DecLeq(called.result.value, called'.result.value)]_vars

\* A call on the largest amount and the largest price returns the largest
\* USD value.
C22_Witness ==
    /\ IsAmountToUsd(called)
    /\ called.value = Pow10Qty(MaxUintExp)
    /\ called.price = Pow10Qty(MaxUintExp)
    /\ called.decimals = 0
    /\ called.result = Returned(Dec("num", 2 * MaxUintExp - PriceExp))

\* ------------------------------------------------------------------------
\* Claims about the rounding of the monetary aggregates
\* ------------------------------------------------------------------------
\* The unrounded USD value amount / 10^decimals * price / 10^8 of the
\* borrows and of the supply of a market (the supply in raw units of the
\* underlying, line 246), as the numerator over
\* 10^TokenDecimals * 10^8; 0 where the value is unknown.
ExactUsdNumerator(amount, mk) ==
    IF amount = NoVal \/ mk.decimals = NoVal \/ mk.price = NoVal THEN 0
    ELSE amount * mk.price * Pow10(TokenDecimals - mk.decimals)

ExactBorrowsUsd(mk) == ExactUsdNumerator(mk.totalBorrows, mk)
ExactSupplyUsd(mk) == ExactUsdNumerator((mk.totalSupply * mk.exchangeRate) \div WAD, mk)

RECURSIVE SumOver(_, _)
SumOver(figures, n) == IF n = 0 THEN 0 ELSE figures[n] + SumOver(figures, n - 1)

\* The exact sum over the markets, quantized once to micro-dollars.
SumQuantizedOnce(figures) ==
    RoundHalfEven(SumOver(figures, Len(figures)), Pow10(TokenDecimals) * UsdQuantum)

\* C23: totalSupplyUsd and totalBorrowUsd of get_markets_summary are the
\* exact sums of the markets' unrounded USD values, quantized to 6 decimal
\* places once, at the end.
C23_SummaryRoundedOnce ==
    (resp.op = "get_markets_summary" /\ resp.status = 200) =>
        /\ resp.body.totalSupplyUsd =
             SumQuantizedOnce([i \in DOMAIN chain.markets |-> ExactSupplyUsd(chain.markets[i])])
        /\ resp.body.totalBorrowUsd =
             SumQuantizedOnce([i \in DOMAIN chain.markets |-> ExactBorrowsUsd(chain.markets[i])])

\* ------------------------------------------------------------------------
\* Claims about the role lists of the trace
\* ------------------------------------------------------------------------
IsMarketImpl(tx) == IsCreate(tx) /\ tx.contractName = MARKET_ABI_NAME

\* The addresses of the proxies of the trace in front of the implementation.
ProxyAddressesOf(impl) ==
    { trace.txs[j].contractAddress : j \in { k \in DOMAIN trace.txs : IsProxyOf(trace.txs[k], impl) } }

\* The elements of a list.
Range(s) == { s[i] : i \in DOMAIN s }

\* C24: every implementation deployed under a role name contributes its
\* proxies to the role's list when it has at least one proxy and its own
\* address when it has none (checked on the market role, whose whole list
\* is returned).
C24_PerImplementationFallback ==
    (extracted.status = "ok" /\ trace.kind = "list") =>
        \A i \in DOMAIN trace.txs :
            IsMarketImpl(trace.txs[i]) =>
                /\ extracted.value # None
                /\ ProxyAddressesOf(trace.txs[i]) \subseteq Range(extracted.value[1].markets)
                /\ (ProxyAddressesOf(trace.txs[i]) = {} =>
                        trace.txs[i].contractAddress \in Range(extracted.value[1].markets))

\* ------------------------------------------------------------------------
\* Claims about the comptroller heuristic
\* ------------------------------------------------------------------------
IsUnnamedImpl(tx) == IsCreate(tx) /\ tx.contractName = NoName

\* A Comptroller is deployed by name: the name-based lookup yields one.
NamedComptrollerFound == \E i \in DOMAIN trace.txs : IsComptrollerImpl(trace.txs[i])

\* What the name-based lookup can yield: a proxy of a Comptroller, or a
\* Comptroller implementation.
NamedComptrollers ==
    ComptrollerProxies
    \cup { trace.txs[i].contractAddress : i \in { k \in DOMAIN trace.txs : IsComptrollerImpl(trace.txs[k]) } }

\* The unnamed implementations that have exactly one proxy.
UnnamedWithOneProxy ==
    { i \in DOMAIN trace.txs :
        IsUnnamedImpl(trace.txs[i]) /\ Cardinality(ProxyAddressesOf(trace.txs[i])) = 1 }

\* The proxies in front of an unnamed implementation.
UnnamedProxies ==
    { trace.txs[j].contractAddress : j \in
        { k \in DOMAIN trace.txs :
            \E i \in DOMAIN trace.txs :
                IsUnnamedImpl(trace.txs[i]) /\ IsProxyOf(trace.txs[k], trace.txs[i]) } }

HeuristicRan == extracted.status = "ok" /\ trace.kind = "list" /\ extracted.value # None

\* C25 as stated: with no comptroller found by name, a proxy is accepted
\* as the comptroller if and only if exactly one unnamed implementation has
\* exactly one proxy; with a named comptroller the heuristic selects
\* nothing.
C25_OneImplementationWithOneProxy ==
    HeuristicRan =>
        /\ ~NamedComptrollerFound =>
              (extracted.value[1].comptroller # NoAddr <=> Cardinality(UnnamedWithOneProxy) = 1)
        /\ NamedComptrollerFound => extracted.value[1].comptroller \in NamedComptrollers

\* C25, amended: with no comptroller found by name, a proxy is accepted as
\* the comptroller if and only if the unnamed implementations have exactly
\* one proxy between them, and it is that proxy; with a named comptroller
\* the heuristic selects nothing.
C25_SingleCandidateProxy ==
    HeuristicRan =>
        /\ ~NamedComptrollerFound =>
              /\ extracted.value[1].comptroller # NoAddr <=> Cardinality(UnnamedProxies) = 1
              /\ extracted.value[1].comptroller # NoAddr =>
                    extracted.value[1].comptroller \in UnnamedProxies
        /\ NamedComptrollerFound => extracted.value[1].comptroller \in NamedComptrollers

\* C25, witness: several unnamed implementations, one proxy in front of one
\* of them, and that proxy resolved as the comptroller.
C25_Witness ==
    /\ HeuristicRan
    /\ ~NamedComptrollerFound
    /\ Cardinality({ i \in DOMAIN trace.txs : IsUnnamedImpl(trace.txs[i]) }) > 1
    /\ Cardinality(UnnamedProxies) = 1
    /\ extracted.value[1].comptroller \in UnnamedProxies

\* ------------------------------------------------------------------------
\* Claims about the selection among candidate traces
\* ------------------------------------------------------------------------
\* The candidates that yield addresses, and what each yields.
Discovered == { i \in DOMAIN trace : ExtractAddresses(trace[i]) # None }
DiscoveredAt(i) == ExtractAddresses(trace[i])

\* The candidates of the highest score, and the first of them.
HighestScored ==
    { i \in Discovered : \A j \in Discovered : Score(DiscoveredAt(j)[1]) <= Score(DiscoveredAt(i)[1]) }
FirstHighestScored == CHOOSE i \in HighestScored : \A j \in HighestScored : i <= j

\* load_addresses ran with auto-discovery enabled and nothing cached.
SelectionRan == called.made /\ called.auto /\ resolved.source # "cache"

\* C26: among all candidate traces load_addresses keeps the one with the
\* highest score, and among traces of equal score the first encountered: a
\* trace-derived snapshot is the extraction of that candidate, and that
\* candidate's extraction is returned whenever it has both mandatory roles.
C26_HighestScoreFirstWins ==
    SelectionRan =>
        /\ (resolved.status = "ok" /\ resolved.source = "trace") =>
              /\ HighestScored # {}
              /\ resolved.value = DiscoveredAt(FirstHighestScored)
        /\ (HighestScored # {} /\ TraceUsable(DiscoveredAt(FirstHighestScored))) =>
              resolved = Ok(DiscoveredAt(FirstHighestScored), "trace")

\* C26, witness: two candidates of equal score that yield different
\* addresses, and the first one's returned.
C26_Witness ==
    /\ SelectionRan
    /\ Len(trace) = 2
    /\ HighestScored = {1, 2}
    /\ DiscoveredAt(1) # DiscoveredAt(2)
    /\ resolved = Ok(DiscoveredAt(1), "trace")

\* The candidates whose extraction has a comptroller and a price oracle.
CompleteCandidates == { i \in Discovered : TraceUsable(DiscoveredAt(i)) }

MarketsReturned == resp.op = "get_markets" /\ resp.status = 200

\* The denominator cash + totalBorrows - totalReserves of a market whose
\* cash and borrows are readable, the reserves counting 0 when unreadable.
UtilizationDenominator(mk) == mk.cash + mk.totalBorrows - OrZero(mk.totalReserves)

\* C27: in get_markets the utilization of a market is
\* totalBorrows / (cash + totalBorrows - totalReserves) when cash and
\* totalBorrows are available and the denominator is greater than 0, and
\* null in every other case, a zero or negative denominator included.
C27_UtilizationGuarded ==
    MarketsReturned =>
        \A i \in DOMAIN chain.markets :
            LET mk == chain.markets[i]
            IN  resp.body[i].utilization =
                    IF /\ mk.cash # NoVal
                       /\ mk.totalBorrows # NoVal
                       /\ UtilizationDenominator(mk) > 0
                    THEN Ratio(mk.totalBorrows, UtilizationDenominator(mk))
                    ELSE NoRatio

\* C27, witness: an answer for a market with cash 4, borrows 2 and reserves
\* 1, its utilization 2 / 5.
C27_Witness ==
    /\ MarketsReturned
    /\ \E i \in DOMAIN chain.markets :
          /\ chain.markets[i].cash = 4
          /\ chain.markets[i].totalBorrows = 2
          /\ chain.markets[i].totalReserves = 1
          /\ resp.body[i].utilization = Ratio(2, 5)

\* The rate model of the market is called: it is bound, and cash and borrows
\* are readable (line 189).
RateModelCalled(mk) == mk.cash # NoVal /\ mk.totalBorrows # NoVal

\* The seconds of a year the fallback multiplies with: the rate model's
\* constant, 31,536,000 when it has none or the read fails.
SecondsPerYearOf(rm) ==
    IF rm.perYearAbi /\ rm.seconds # NoVal THEN rm.seconds ELSE DEFAULT_SECONDS_PER_YEAR

\* The APR from a per-year answer and a per-second answer of the rate model.
AprFrom(rm, perYear, perSecond) ==
    IF rm.perYearAbi /\ perYear # NoVal THEN perYear
    ELSE IF perSecond # NoVal THEN perSecond * SecondsPerYearOf(rm)
    ELSE NoVal

\* C28: in get_markets the borrow (supply) APR of a market whose rate model
\* is called is the answer of the per-year method whenever that call
\* succeeds; only when it fails is it the per-second rate times the seconds
\* of a year, 31,536,000 when the rate model has no constant of its own; and
\* it is null when the per-year and the per-second call both fail.
C28_AprPerYearElsePerSecond ==
    MarketsReturned =>
        \A i \in DOMAIN chain.markets :
            LET mk == chain.markets[i]
                rm == mk.rateModel
            IN  RateModelCalled(mk) =>
                    /\ resp.body[i].borrowRatePerYear = AprFrom(rm, rm.borrowYear, rm.borrowRate)
                    /\ resp.body[i].supplyRatePerYear = AprFrom(rm, rm.supplyYear, rm.supplyRate)

\* C28, witness: a rate model without the per-year methods and without a
\* constant, and the borrow APR the per-second rate times 31,536,000.
C28_Witness ==
    /\ MarketsReturned
    /\ \E i \in DOMAIN chain.markets :
          /\ RateModelCalled(chain.markets[i])
          /\ chain.markets[i].rateModel = RateModelPerSecondOnly
          /\ resp.body[i].borrowRatePerYear = DEFAULT_SECONDS_PER_YEAR

\* ------------------------------------------------------------------------
\* Claims about the health factor of the two account views
\* ------------------------------------------------------------------------
\* What get_account answers for the account of the request on the chain as
\* it is.
AccountOfRequest == GetAccountOf(chain, resp.arg)

\* C30: the healthFactor get_account_overview reports equals the
\* healthFactor get_account reports for the same account on the same
\* positions: both are null, or both are the same number.
C30_HealthFactorsAgree ==
    OverviewReturned =>
        /\ ~AccountOfRequest.raised
        /\ resp.body.healthFactor = AccountOfRequest.value.healthFactor

\* C30, witness: an overview of an account that borrows, with the health
\* factor get_account reports, which is a number.
C30_Witness ==
    /\ OverviewReturned
    /\ resp.body.healthFactor # NoRatio
    /\ resp.body.healthFactor.num > 0
    /\ resp.body.healthFactor = AccountOfRequest.value.healthFactor

====
